---- MODULE Spec2Model ----
(***************************************************************************)
(* Model of the fleet installer (package main of the installer program):   *)
(* main() fans one goroutine per host out over the host list, each         *)
(* admitted through the buffered channel `sem`, connects over SSH with the *)
(* credential loop and connectSSH's retry loop, detects the flavor,        *)
(* runs installBuildroot or installDeb step by step, records failures in   *)
(* failedInstalls under `mu`, and main prints the summary after wg.Wait(). *)
(* A host is a position of the host list `ips`.                            *)
(***************************************************************************)
EXTENDS Integers, Sequences, FiniteSets, TLC

(* ----- bounds of the model ----- *)
NumHosts == 3      \* len(ips)
MaxCreds == 2      \* the longest credential list of CredSpec

(* ----- program constants ----- *)
SemSize == 10      \* sem := make(chan struct{}, 10)
maxRetries == 3

Hosts == 1..NumHosts

DialResults == {"ok", "auth", "net"}

VARIABLES
  usernames,       \* the ordered credential list chosen before the batch
  mainpc,          \* position of main(): "spawn", "wait", "summary", "done"
  nextHost,        \* index of the next host of the range loop over ips
  wg,              \* sync.WaitGroup counter
  sem,             \* number of tokens in the buffered channel sem
  mu,              \* sync.Mutex: TRUE when locked
  failedInstalls,  \* the shared slice of failed hosts
  summary,         \* what main prints after wg.Wait()
  crashed,         \* the process died of an unrecovered panic
  pc,              \* position of each host's goroutine ("dead" after a panic)
  defers,          \* each goroutine's stack of deferred calls
  user,            \* index of the credential loop
  attempt,         \* connectSSH's loop counter i
  dialErr,         \* connectSSH's err: "nil", "auth" or "net"
  client,          \* the SSH connection: "nil", "open", "closed"
  successfulUser,  \* index of the credential that connected, 0 when unset
  err,             \* the goroutine's err
  isBuildroot,     \* result of checkBuildroot
  tmp,             \* slice value read by append before it is stored back
  outcome,         \* the per-host result line logged by the goroutine
  touched,         \* a detection or strategy step was issued for the host
  osRelease,       \* what checkBuildroot met: session, command, output
  lldpdArg,        \* the installLldpd argument of the host's installDeb call
  at,              \* index of the strategy's next statement, 0 outside a call
  started,         \* the strategy's session variable holds a started session
  issued,          \* the statements of the call that went to the remote side
  faulted,         \* the statement that ended the call met a failing answer
  password,        \* the password argument of the host's installDeb call
  sudoWith,        \* the secrets piped to sudo -S by the call's commands
  reader,          \* readIPsFromFile: the file, the scanner and the slice ips
  push,            \* two transferFile calls in a row, statement by statement
  jitter,          \* the start-up delay of installBuildroot's init script
  updater,         \* the service's self-updater (updater.CheckForUpdates)
  sender,          \* the service's sendStatusUpdate and its message buffer
  publisher,       \* mqtt.PublishMQTTMessage, attempt by attempt
  service,         \* the service's goroutines and its shutdown
  fleet            \* the batch over a host list longer than the semaphore

vars == << usernames, mainpc, nextHost, wg, sem, mu,
           failedInstalls, summary, crashed, pc, defers, user, attempt,
           dialErr, client, successfulUser, err, isBuildroot, tmp,
           outcome, touched, osRelease, lldpdArg, at, started, issued,
           faulted, password, sudoWith, reader, push, jitter, updater,
           sender, publisher, service, fleet >>

\* the functions followed on their own; the batch leaves them alone
serviceVars == << sender, publisher, service, fleet >>
funcVars == << reader, push, jitter, updater, serviceVars >>
inputVars == << usernames, funcVars >>
mainVars == << mainpc, nextHost, summary >>
connVars == << user, attempt, dialErr, client, successfulUser >>
stepVars == << osRelease, lldpdArg, at, started, issued, faulted, password,
              sudoWith >>
stratVars == << isBuildroot, touched, stepVars >>

\* checkBuildroot has not run (or its result has been used)
NoRelease == [read |-> FALSE, sess |-> FALSE, run |-> FALSE, contains |-> FALSE]

\* no password argument: outside a call, and in installBuildroot
NoPassword == << >>

NoSummary == [printed |-> FALSE, failedHosts |-> << >>, total |-> 0,
              succeeded |-> 0, failed |-> 0]

Range(s) == { s[i] : i \in 1..Len(s) }
Count(s, x) == Cardinality({ i \in 1..Len(s) : s[i] = x })
Front(s) == SubSeq(s, 1, Len(s) - 1)
Last(s) == s[Len(s)]

\* a function that is not being followed
Off == [pc |-> "off"]

\* the service is not being followed
ServiceOff ==
  /\ sender = Off
  /\ publisher = Off
  /\ service = Off
  /\ fleet = Off

\* main and the goroutines before the batch, whatever the credential list
WorkersInit ==
  /\ mainpc = "spawn"
  /\ nextHost = 1
  /\ wg = 0
  /\ sem = 0
  /\ mu = FALSE
  /\ failedInstalls = << >>
  /\ summary = NoSummary
  /\ crashed = FALSE
  /\ pc = [h \in Hosts |-> "idle"]
  /\ defers = [h \in Hosts |-> << >>]
  /\ user = [h \in Hosts |-> 0]
  /\ attempt = [h \in Hosts |-> 0]
  /\ dialErr = [h \in Hosts |-> "nil"]
  /\ client = [h \in Hosts |-> "nil"]
  /\ successfulUser = [h \in Hosts |-> 0]
  /\ err = [h \in Hosts |-> "nil"]
  /\ isBuildroot = [h \in Hosts |-> FALSE]
  /\ tmp = [h \in Hosts |-> << >>]
  /\ outcome = [h \in Hosts |-> "none"]
  /\ touched = [h \in Hosts |-> FALSE]
  /\ osRelease = [h \in Hosts |-> NoRelease]
  /\ lldpdArg = [h \in Hosts |-> FALSE]
  /\ at = [h \in Hosts |-> 0]
  /\ started = [h \in Hosts |-> FALSE]
  /\ issued = [h \in Hosts |-> << >>]
  /\ faulted = [h \in Hosts |-> FALSE]
  /\ password = [h \in Hosts |-> NoPassword]
  /\ sudoWith = [h \in Hosts |-> { }]

\* the device types of the prompt: choice "1" takes username1 and
\* password1 of the configuration, choice "2" username2 and password2
Choices == { 1, 2 }

\* usernames = []string{configMap["username1"]} or
\* []string{configMap["username2"]}: one credential, then the batch
BatchInit ==
  /\ usernames \in { << c >> : c \in Choices }
  /\ WorkersInit

Init ==
  /\ BatchInit
  /\ reader = Off
  /\ push = Off
  /\ jitter = Off
  /\ updater = Off
  /\ ServiceOff

\* the variables of the batch
batchVars == << usernames, mainpc, nextHost, wg, sem, mu,
                failedInstalls, summary, crashed, pc, defers, user, attempt,
                dialErr, client, successfulUser, err, isBuildroot, tmp,
                outcome, touched, stepVars >>

\* an unrecovered panic in any goroutine ends the process: every goroutine
\* stops, the memory is gone and the operating system closes the sockets;
\* only the lines already logged remain
Panic ==
  /\ crashed' = TRUE
  /\ mainpc' = "dead"
  /\ pc' = [h \in Hosts |-> "dead"]
  /\ nextHost' = 1
  /\ wg' = 0
  /\ sem' = 0
  /\ mu' = FALSE
  /\ failedInstalls' = << >>
  /\ summary' = NoSummary
  /\ defers' = [h \in Hosts |-> << >>]
  /\ user' = [h \in Hosts |-> 0]
  /\ attempt' = [h \in Hosts |-> 0]
  /\ dialErr' = [h \in Hosts |-> "nil"]
  /\ client' = [h \in Hosts |-> IF client[h] = "nil" THEN "nil" ELSE "closed"]
  /\ successfulUser' = [h \in Hosts |-> 0]
  /\ err' = [h \in Hosts |-> "nil"]
  /\ isBuildroot' = [h \in Hosts |-> FALSE]
  /\ tmp' = [h \in Hosts |-> << >>]
  /\ osRelease' = [h \in Hosts |-> NoRelease]
  /\ lldpdArg' = [h \in Hosts |-> FALSE]
  /\ at' = [h \in Hosts |-> 0]
  /\ started' = [h \in Hosts |-> FALSE]
  /\ issued' = [h \in Hosts |-> << >>]
  /\ faulted' = [h \in Hosts |-> FALSE]
  /\ password' = [h \in Hosts |-> NoPassword]
  /\ sudoWith' = [h \in Hosts |-> { }]
  /\ UNCHANGED << inputVars, outcome, touched >>

(* ----- main(): the range loop, wg.Wait() and the summary ----- *)

\* wg.Add(1); go func(host){ defer wg.Done(); ... }(host)
Spawn ==
  /\ mainpc = "spawn"
  /\ nextHost <= NumHosts
  /\ wg' = wg + 1
  /\ pc' = [pc EXCEPT ![nextHost] = "acquire"]
  /\ defers' = [defers EXCEPT ![nextHost] = << "wg.Done" >>]
  /\ nextHost' = nextHost + 1
  /\ mainpc' = IF nextHost + 1 > NumHosts THEN "wait" ELSE "spawn"
  /\ UNCHANGED << inputVars, sem, mu, failedInstalls, summary,
                  crashed, connVars, err, stratVars, tmp, outcome >>


\* Wait as it would be without the barrier: main goes on while goroutines run
WaitNoBarrier ==
  /\ mainpc = "wait"
  /\ mainpc' = "summary"
  /\ UNCHANGED << inputVars, nextHost, wg, sem, mu,
                  failedInstalls, summary, crashed, pc, defers, connVars, err,
                  stratVars, tmp, outcome >>

\* wg.Wait() returns when the counter is zero
Wait ==
  /\ mainpc = "wait"
  /\ wg = 0
  /\ mainpc' = "summary"
  /\ UNCHANGED << inputVars, nextHost, wg, sem, mu,
                  failedInstalls, summary, crashed, pc, defers, connVars, err,
                  stratVars, tmp, outcome >>

\* the failed-host listing and the three totals
Summary ==
  /\ mainpc = "summary"
  /\ summary' = [printed |-> TRUE,
                 failedHosts |-> failedInstalls,
                 total |-> NumHosts,
                 succeeded |-> NumHosts - Len(failedInstalls),
                 failed |-> Len(failedInstalls)]
  /\ mainpc' = "done"
  /\ UNCHANGED << inputVars, nextHost, wg, sem, mu,
                  failedInstalls, crashed, pc, defers, connVars, err,
                  stratVars, tmp, outcome >>

(* ----- the goroutine of one host: admission and the credential loop ----- *)



\* sem <- struct{}{} blocks while the channel is full; defer func(){ <-sem }();
\* the loop over usernames starts. With no username the loop body never
\* runs, err and client stay nil, and defer client.Close() dereferences
\* nil: the goroutine panics, and its deferred calls run before the
\* process ends
Acquire(h) ==
  /\ pc[h] = "acquire"
  /\ sem < SemSize
  /\ sem' = sem + 1
  /\ defers' = [defers EXCEPT ![h] = Append(@, "sem")]
  /\ user' = [user EXCEPT ![h] = IF Len(usernames) = 0 THEN 0 ELSE 1]
  /\ pc' = [pc EXCEPT ![h] = IF Len(usernames) = 0 THEN "panic" ELSE "dial"]
  /\ UNCHANGED << inputVars, mainVars, wg, mu, failedInstalls,
                  crashed, attempt, dialErr, client, successfulUser,
                  err, stratVars, tmp, outcome >>


\* Dial as it would be without the break: after a successful connect the
\* credential loop goes on to the next user
DialNoBreak(h, r) ==
  /\ pc[h] = "dial"
  /\ attempt[h] < maxRetries
  /\ IF r = "ok"
       THEN /\ client' = [client EXCEPT ![h] = "open"]
            /\ err' = [err EXCEPT ![h] = "nil"]
            /\ successfulUser' = [successfulUser EXCEPT ![h] = user[h]]
            /\ attempt' = [attempt EXCEPT ![h] = 0]
            /\ dialErr' = [dialErr EXCEPT ![h] = "nil"]
            /\ IF user[h] < Len(usernames)
                 THEN /\ user' = [user EXCEPT ![h] = @ + 1]
                      /\ UNCHANGED << pc, defers >>
                 ELSE /\ user' = [user EXCEPT ![h] = 0]
                      /\ defers' = [defers EXCEPT ![h] = Append(@, "client.Close")]
                      /\ pc' = [pc EXCEPT ![h] = "detect"]
            /\ UNCHANGED outcome
       ELSE IF attempt[h] + 1 < maxRetries
              THEN /\ attempt' = [attempt EXCEPT ![h] = @ + 1]
                   /\ dialErr' = [dialErr EXCEPT ![h] = r]
                   /\ UNCHANGED << client, err, successfulUser, user, pc,
                                   defers, outcome >>
              ELSE /\ attempt' = [attempt EXCEPT ![h] = 0]
                   /\ dialErr' = [dialErr EXCEPT ![h] = "nil"]
                   /\ IF user[h] < Len(usernames)
                        THEN /\ user' = [user EXCEPT ![h] = @ + 1]
                             /\ err' = [err EXCEPT ![h] = "connect"]
                             /\ UNCHANGED << pc, outcome >>
                        ELSE /\ user' = [user EXCEPT ![h] = 0]
                             /\ err' = [err EXCEPT ![h] = "nil"]
                             /\ outcome' = [outcome EXCEPT ![h] = "ConnectFailed"]
                             /\ pc' = [pc EXCEPT ![h] = "lock"]
                   /\ UNCHANGED << client, successfulUser, defers >>
  /\ UNCHANGED << inputVars, mainVars, wg, sem, mu, failedInstalls, crashed,
                  stratVars, tmp >>

\* Dial as it would be with a retry loop of one more turn
DialOneMore(h, r) ==
  /\ pc[h] = "dial"
  /\ attempt[h] < maxRetries + 1
  /\ IF r = "ok"
       THEN /\ client' = [client EXCEPT ![h] = "open"]
            /\ err' = [err EXCEPT ![h] = "nil"]
            /\ successfulUser' = [successfulUser EXCEPT ![h] = user[h]]
            /\ user' = [user EXCEPT ![h] = 0]
            /\ attempt' = [attempt EXCEPT ![h] = 0]
            /\ dialErr' = [dialErr EXCEPT ![h] = "nil"]
            /\ defers' = [defers EXCEPT ![h] = Append(@, "client.Close")]
            /\ pc' = [pc EXCEPT ![h] = "detect"]
            /\ UNCHANGED outcome
       ELSE IF attempt[h] + 1 < maxRetries + 1
              THEN /\ attempt' = [attempt EXCEPT ![h] = @ + 1]
                   /\ dialErr' = [dialErr EXCEPT ![h] = r]
                   /\ UNCHANGED << client, err, successfulUser, user, pc,
                                   defers, outcome >>
              ELSE /\ attempt' = [attempt EXCEPT ![h] = 0]
                   /\ dialErr' = [dialErr EXCEPT ![h] = "nil"]
                   /\ IF user[h] < Len(usernames)
                        THEN /\ user' = [user EXCEPT ![h] = @ + 1]
                             /\ err' = [err EXCEPT ![h] = "connect"]
                             /\ UNCHANGED << pc, outcome >>
                        ELSE /\ user' = [user EXCEPT ![h] = 0]
                             /\ err' = [err EXCEPT ![h] = "nil"]
                             /\ outcome' = [outcome EXCEPT ![h] = "ConnectFailed"]
                             /\ pc' = [pc EXCEPT ![h] = "lock"]
                   /\ UNCHANGED << client, successfulUser, defers >>
  /\ UNCHANGED << inputVars, mainVars, wg, sem, mu, failedInstalls, crashed,
                  stratVars, tmp >>

\* Dial as it would be without defer client.Close()
DialNoDefer(h, r) ==
  /\ pc[h] = "dial"
  /\ attempt[h] < maxRetries
  /\ IF r = "ok"
       THEN /\ client' = [client EXCEPT ![h] = "open"]
            /\ err' = [err EXCEPT ![h] = "nil"]
            /\ successfulUser' = [successfulUser EXCEPT ![h] = user[h]]
            /\ user' = [user EXCEPT ![h] = 0]
            /\ attempt' = [attempt EXCEPT ![h] = 0]
            /\ dialErr' = [dialErr EXCEPT ![h] = "nil"]
            /\ pc' = [pc EXCEPT ![h] = "detect"]
            /\ UNCHANGED << outcome, defers >>
       ELSE IF attempt[h] + 1 < maxRetries
              THEN /\ attempt' = [attempt EXCEPT ![h] = @ + 1]
                   /\ dialErr' = [dialErr EXCEPT ![h] = r]
                   /\ UNCHANGED << client, err, successfulUser, user, pc,
                                   defers, outcome >>
              ELSE /\ attempt' = [attempt EXCEPT ![h] = 0]
                   /\ dialErr' = [dialErr EXCEPT ![h] = "nil"]
                   /\ IF user[h] < Len(usernames)
                        THEN /\ user' = [user EXCEPT ![h] = @ + 1]
                             /\ err' = [err EXCEPT ![h] = "connect"]
                             /\ UNCHANGED << pc, outcome >>
                        ELSE /\ user' = [user EXCEPT ![h] = 0]
                             /\ err' = [err EXCEPT ![h] = "nil"]
                             /\ outcome' = [outcome EXCEPT ![h] = "ConnectFailed"]
                             /\ pc' = [pc EXCEPT ![h] = "lock"]
                   /\ UNCHANGED << client, successfulUser, defers >>
  /\ UNCHANGED << inputVars, mainVars, wg, sem, mu, failedInstalls, crashed,
                  stratVars, tmp >>

\* Dial as it would be without the test `if err != nil` after the loop:
\* with every credential failed the goroutine goes on to the detection
DialNoErrTest(h, r) ==
  /\ pc[h] = "dial"
  /\ attempt[h] < maxRetries
  /\ IF r = "ok"
       THEN /\ client' = [client EXCEPT ![h] = "open"]
            /\ err' = [err EXCEPT ![h] = "nil"]
            /\ successfulUser' = [successfulUser EXCEPT ![h] = user[h]]
            /\ user' = [user EXCEPT ![h] = 0]
            /\ attempt' = [attempt EXCEPT ![h] = 0]
            /\ dialErr' = [dialErr EXCEPT ![h] = "nil"]
            /\ defers' = [defers EXCEPT ![h] = Append(@, "client.Close")]
            /\ pc' = [pc EXCEPT ![h] = "detect"]
            /\ UNCHANGED outcome
       ELSE IF attempt[h] + 1 < maxRetries
              THEN /\ attempt' = [attempt EXCEPT ![h] = @ + 1]
                   /\ dialErr' = [dialErr EXCEPT ![h] = r]
                   /\ UNCHANGED << client, err, successfulUser, user, pc,
                                   defers, outcome >>
              ELSE /\ attempt' = [attempt EXCEPT ![h] = 0]
                   /\ dialErr' = [dialErr EXCEPT ![h] = "nil"]
                   /\ IF user[h] < Len(usernames)
                        THEN /\ user' = [user EXCEPT ![h] = @ + 1]
                             /\ err' = [err EXCEPT ![h] = "connect"]
                             /\ UNCHANGED << pc, outcome >>
                        ELSE /\ user' = [user EXCEPT ![h] = 0]
                             /\ err' = [err EXCEPT ![h] = "nil"]
                             /\ pc' = [pc EXCEPT ![h] = "detect"]
                             /\ UNCHANGED outcome
                   /\ UNCHANGED << client, successfulUser, defers >>
  /\ UNCHANGED << inputVars, mainVars, wg, sem, mu, failedInstalls, crashed,
                  stratVars, tmp >>

\* connectSSH, one turn of its retry loop for credential user[h]: ssh.Dial
\* returns r. On success connectSSH returns the client at once, the credential
\* loop breaks and client.Close() is deferred. On any error connectSSH logs,
\* sleeps 2s and counts the attempt; after maxRetries failed attempts it
\* returns the error and the credential loop moves to the next user; after the
\* last user the goroutine logs "Failed to connect ... with any user" and goes
\* for the mutex. err is not read again after that: the model forgets it.
Dial(h, r) ==
  /\ pc[h] = "dial"
  /\ attempt[h] < maxRetries
  /\ IF r = "ok"
       THEN /\ client' = [client EXCEPT ![h] = "open"]
            /\ err' = [err EXCEPT ![h] = "nil"]
            /\ successfulUser' = [successfulUser EXCEPT ![h] = user[h]]
            /\ user' = [user EXCEPT ![h] = 0]
            /\ attempt' = [attempt EXCEPT ![h] = 0]
            /\ dialErr' = [dialErr EXCEPT ![h] = "nil"]
            /\ defers' = [defers EXCEPT ![h] = Append(@, "client.Close")]
            /\ pc' = [pc EXCEPT ![h] = "detect"]
            /\ UNCHANGED outcome
       ELSE IF attempt[h] + 1 < maxRetries
              THEN /\ attempt' = [attempt EXCEPT ![h] = @ + 1]
                   /\ dialErr' = [dialErr EXCEPT ![h] = r]
                   /\ UNCHANGED << client, err, successfulUser, user, pc,
                                   defers, outcome >>
              ELSE /\ attempt' = [attempt EXCEPT ![h] = 0]
                   /\ dialErr' = [dialErr EXCEPT ![h] = "nil"]
                   /\ IF user[h] < Len(usernames)
                        THEN /\ user' = [user EXCEPT ![h] = @ + 1]
                             /\ err' = [err EXCEPT ![h] = "connect"]
                             /\ UNCHANGED << pc, outcome >>
                        ELSE /\ user' = [user EXCEPT ![h] = 0]
                             /\ err' = [err EXCEPT ![h] = "nil"]
                             /\ outcome' = [outcome EXCEPT ![h] = "ConnectFailed"]
                             /\ pc' = [pc EXCEPT ![h] = "lock"]
                   /\ UNCHANGED << client, successfulUser, defers >>
  /\ UNCHANGED << inputVars, mainVars, wg, sem, mu, failedInstalls, crashed,
                  stratVars, tmp >>

(* ----- the failed-host list under the mutex ----- *)


\* Lock as it would be without the mutex: the append is entered at once
LockNoMutex(h) ==
  /\ pc[h] = "lock"
  /\ mu' = TRUE
  /\ tmp' = [tmp EXCEPT ![h] = failedInstalls]
  /\ pc' = [pc EXCEPT ![h] = "append"]
  /\ UNCHANGED << inputVars, mainVars, wg, sem, failedInstalls, crashed,
                  defers, connVars, err, stratVars, outcome >>

\* mu.Lock(); append(failedInstalls, host) reads the slice ...
Lock(h) ==
  /\ pc[h] = "lock"
  /\ ~mu
  /\ mu' = TRUE
  /\ tmp' = [tmp EXCEPT ![h] = failedInstalls]
  /\ pc' = [pc EXCEPT ![h] = "append"]
  /\ UNCHANGED << inputVars, mainVars, wg, sem, failedInstalls, crashed,
                  defers, connVars, err, stratVars, outcome >>


\* Unlock as it would be if the connect-failure branch had no return: the
\* goroutine goes on to the detection
UnlockNoReturn(h) ==
  /\ pc[h] = "append"
  /\ failedInstalls' = Append(tmp[h], h)
  /\ tmp' = [tmp EXCEPT ![h] = << >>]
  /\ mu' = FALSE
  /\ pc' = [pc EXCEPT ![h] = IF client[h] = "nil" THEN "detect" ELSE "return"]
  /\ UNCHANGED << inputVars, mainVars, wg, sem, crashed, defers, connVars,
                  err, stratVars, outcome >>

\* ... and stores the extended slice back; mu.Unlock(). The connect-failure
\* branch returns, the install-failure branch falls off the end of the
\* goroutine: both run the deferred calls.
Unlock(h) ==
  /\ pc[h] = "append"
  /\ failedInstalls' = Append(tmp[h], h)
  /\ tmp' = [tmp EXCEPT ![h] = << >>]
  /\ mu' = FALSE
  /\ pc' = [pc EXCEPT ![h] = "return"]
  /\ UNCHANGED << inputVars, mainVars, wg, sem, crashed, defers, connVars,
                  err, stratVars, outcome >>

(* ----- flavor detection and the two installation strategies ----- *)

\* what the remote side and the local file system answer to one step
Env == [local : BOOLEAN, sess : BOOLEAN, pipe : BOOLEAN, run : BOOLEAN]
EnvOK == [local |-> TRUE, sess |-> TRUE, pipe |-> TRUE, run |-> TRUE]

\* checkBuildroot as it would be without the test of the command's error
checkBuildrootNoRunCheck(sessOk, runOk, contains) ==
  IF ~sessOk THEN FALSE
  ELSE contains

\* checkBuildroot: false when the session cannot be created or the command
\* fails, otherwise whether the output contains "Buildroot"
checkBuildroot(sessOk, runOk, contains) ==
  IF ~sessOk THEN FALSE
  ELSE IF ~runOk THEN FALSE
  ELSE contains

\* transferFile: NewSession, then a goroutine that takes session.StdinPipe()
\* and writes header, payload and terminator, racing with session.Run(scp).
\* pipeFirst: the goroutine took the pipe before Run started the command;
\* otherwise StdinPipe fails, w is nil and the goroutine panics.
transferFile(sessOk, pipeFirst, runOk) ==
  IF ~sessOk THEN "err"
  ELSE IF ~pipeFirst THEN "panic"
  ELSE IF runOk THEN "ok"
  ELSE "err"

\* installBuildroot as it would be with the service started before the init
\* script is written
BuildrootStepsStartFirst ==
  << "stat", "mkdir", "mkdir", "mkdir", "xferFile", "xferFile", "xferFile",
     "start", "xferInit", "chmod", "updaterc", "verify" >>

\* installBuildroot as it would be with the existence check after the
\* directories are made
BuildrootStepsCheckLate ==
  << "mkdir", "mkdir", "mkdir", "stat", "xferFile", "xferFile", "xferFile",
     "xferInit", "chmod", "updaterc", "start", "verify" >>

\* installBuildroot as it would be with the files pushed before the
\* directories are made
BuildrootStepsPushFirst ==
  << "stat", "xferFile", "xferFile", "xferFile", "mkdir", "mkdir", "mkdir",
     "xferInit", "chmod", "updaterc", "start", "verify" >>

\* the statements of installBuildroot, in program order
BuildrootSteps ==
  << "stat", "mkdir", "mkdir", "mkdir", "xferFile", "xferFile", "xferFile",
     "xferInit", "chmod", "updaterc", "start", "verify" >>

\* installDeb as it would be with the side bundle handled after the main
\* package is installed
DebStepsMainFirst(lldpd) ==
  << "debXfer", "dpkg" >>
    \o (IF lldpd THEN << "zipRead", "zipXfer", "zipInstall" >> ELSE << >>)
    \o << "start", "verify" >>

\* the statements of installDeb, in program order
DebSteps(lldpd) ==
  (IF lldpd THEN << "zipRead", "zipXfer", "zipInstall" >> ELSE << >>)
    \o << "debXfer", "dpkg", "start", "verify" >>

Steps(buildroot, lldpd) == IF buildroot THEN BuildrootSteps ELSE DebSteps(lldpd)

\* steps that run their command on a session created for them
OwnSession == { "mkdir", "chmod", "start", "verify", "zipInstall", "dpkg" }

TransferResult(e) ==
  LET r == transferFile(e.sess, e.pipe, e.run)
  IN  IF r = "err" THEN "transfer" ELSE IF r = "panic" THEN "panic" ELSE "nil"

\* the error a step returns ("nil" for none, "panic" when the process dies);
\* isStarted: the session the step would reuse has already run a command
\* (Session.Run on a started session returns "session already started")
StepResult(step, isStarted, e) ==
  CASE step \in { "stat", "zipRead" } ->
         IF e.local THEN "nil" ELSE "precondition"
    [] step = "xferFile" ->
         IF ~e.local THEN "precondition" ELSE TransferResult(e)
    [] step \in { "xferInit", "zipXfer", "debXfer" } -> TransferResult(e)
    [] step = "verify" ->
         IF ~e.sess THEN "session" ELSE IF ~e.run THEN "verify" ELSE "nil"
    [] step = "updaterc" ->
         IF isStarted THEN "command" ELSE IF ~e.run THEN "command" ELSE "nil"
    [] OTHER ->
         IF ~e.sess THEN "session" ELSE IF ~e.run THEN "command" ELSE "nil"

\* whether the strategy's session variable holds a started session after a step
StartedAfter(step, isStarted) ==
  IF step \in OwnSession \cup { "updaterc" } THEN TRUE ELSE isStarted

\* the strategy from statement i on: it returns at the first statement whose
\* result is not nil; statement k meets the answers e, the others meet EnvOK
RECURSIVE RunFrom(_, _, _, _, _)
RunFrom(steps, i, isStarted, k, e) ==
  IF i > Len(steps)
    THEN [err |-> "nil", issued |-> Len(steps)]
    ELSE LET r == StepResult(steps[i], isStarted, IF i = k THEN e ELSE EnvOK)
         IN  IF r # "nil"
               THEN [err |-> r, issued |-> i]
               ELSE RunFrom(steps, i + 1, StartedAfter(steps[i], isStarted), k, e)

\* installBuildroot(client) / installDeb(client, ...): error of the call
RunStrategy(buildroot, lldpd, k, e) ==
  RunFrom(Steps(buildroot, lldpd), 1, FALSE, k, e)

MaxSteps == Len(BuildrootSteps)

\* the answers a strategy call can meet: no fault, or statement k meeting one
\* fault (a statement tests its answers in a fixed order, so several faults at
\* one statement give the result of the first one tested)
Faults == { e \in Env : Cardinality({ f \in { "local", "sess", "pipe", "run" } : ~e[f] }) = 1 }
InstallEnvs == { << 0, EnvOK >> } \cup ((1..MaxSteps) \X Faults)

\* RunStrategy tabulated over the answers
StrategyTable ==
  [b \in BOOLEAN |-> [l \in BOOLEAN |->
     [ke \in InstallEnvs |-> RunStrategy(b, l, ke[1], ke[2])]]]

\* one answer for every error a strategy call can return (answers that lead
\* to the same error lead to the same state)
InstallAnswers ==
  [b \in BOOLEAN |-> [l \in BOOLEAN |->
     { CHOOSE ke \in InstallEnvs : StrategyTable[b][l][ke].err = r :
         r \in { StrategyTable[b][l][ke].err : ke \in InstallEnvs } }]]

\* isBuildroot := checkBuildroot(client)
Detect(h, sessOk, runOk, contains) ==
  /\ pc[h] = "detect"
  /\ isBuildroot' = [isBuildroot EXCEPT ![h] = checkBuildroot(sessOk, runOk, contains)]
  /\ touched' = [touched EXCEPT ![h] = TRUE]
  /\ pc' = [pc EXCEPT ![h] = "install"]
  /\ UNCHANGED << inputVars, mainVars, wg, sem, mu, failedInstalls, crashed,
                  defers, connVars, err, tmp, outcome, stepVars >>


\* Install as it would be if the failure branch did not record the host
InstallNoRecord(h, installLldpd, k, e) ==
  /\ pc[h] = "install"
  /\ << k, e >> \in InstallAnswers[isBuildroot[h]][installLldpd]
  /\ LET res == StrategyTable[isBuildroot[h]][installLldpd][<< k, e >>]
     IN  IF res.err = "panic"
           THEN Panic
           ELSE /\ outcome' = [outcome EXCEPT ![h] =
                                 IF res.err # "nil" THEN "InstallFailed" ELSE "Succeeded"]
                /\ pc' = [pc EXCEPT ![h] = "return"]
                /\ successfulUser' = [successfulUser EXCEPT ![h] = 0]
                /\ isBuildroot' = [isBuildroot EXCEPT ![h] = FALSE]
                /\ UNCHANGED << inputVars, mainVars, wg, sem, mu,
                                failedInstalls, crashed, defers, user, attempt,
                                dialErr, client, err, touched, tmp, stepVars >>

\* err = installBuildroot(client) or err = installDeb(client, debData, debFile,
\* credentials[successfulUser], installLldpd), met by the answers << k, e >>;
\* then if err != nil { log "Failed to install"; mu.Lock() ... } else { log
\* "Successfully installed" } and the goroutine returns. A panic of a
\* transfer's goroutine ends the process. isBuildroot, successfulUser and err
\* are not read after the log line: the model forgets their values.
\* installLldpd is the answer given once before the batch; it is an input of
\* the call here, so a run covers both answers.
Install(h, installLldpd, k, e) ==
  /\ pc[h] = "install"
  /\ << k, e >> \in InstallAnswers[isBuildroot[h]][installLldpd]
  /\ LET res == StrategyTable[isBuildroot[h]][installLldpd][<< k, e >>]
     IN  IF res.err = "panic"
           THEN Panic
           ELSE /\ outcome' = [outcome EXCEPT ![h] =
                                 IF res.err # "nil" THEN "InstallFailed" ELSE "Succeeded"]
                /\ pc' = [pc EXCEPT ![h] = IF res.err # "nil" THEN "lock" ELSE "return"]
                /\ successfulUser' = [successfulUser EXCEPT ![h] = 0]
                /\ isBuildroot' = [isBuildroot EXCEPT ![h] = FALSE]
                /\ UNCHANGED << inputVars, mainVars, wg, sem, mu,
                                failedInstalls, crashed, defers, user, attempt,
                                dialErr, client, err, touched, tmp, stepVars >>

\* RunDefer as it would be with the deferred calls run first-registered
\* first (wg.Done(), then <-sem, then client.Close())
RunDeferFIFO(h) ==
  /\ pc[h] \in { "return", "panic" }
  /\ IF defers[h] = << >>
       THEN pc[h] = "panic" /\ Panic
       ELSE /\ LET d == Head(defers[h])
               IN  /\ client' = [client EXCEPT ![h] =
                                   IF d = "client.Close" THEN "closed" ELSE @]
                   /\ sem' = IF d = "sem" THEN sem - 1 ELSE sem
                   /\ wg' = IF d = "wg.Done" THEN wg - 1 ELSE wg
            /\ defers' = [defers EXCEPT ![h] = Tail(@)]
            /\ IF Len(defers[h]) = 1 /\ pc[h] = "return"
                 THEN pc' = [pc EXCEPT ![h] = "exited"]
                 ELSE pc' = pc
            /\ UNCHANGED << inputVars, mainVars, mu, failedInstalls, crashed,
                            user, attempt, dialErr, successfulUser, err,
                            stratVars, tmp, outcome >>

\* the goroutine returns or panics: its deferred calls run last-registered
\* first (client.Close(), then <-sem, then wg.Done()); after the last
\* deferred call of a panicking goroutine the process ends
RunDefer(h) ==
  /\ pc[h] \in { "return", "panic" }
  /\ IF defers[h] = << >>
       THEN pc[h] = "panic" /\ Panic
       ELSE /\ LET d == Last(defers[h])
               IN  /\ client' = [client EXCEPT ![h] =
                                   IF d = "client.Close" THEN "closed" ELSE @]
                   /\ sem' = IF d = "sem" THEN sem - 1 ELSE sem
                   /\ wg' = IF d = "wg.Done" THEN wg - 1 ELSE wg
            /\ defers' = [defers EXCEPT ![h] = Front(@)]
            /\ IF Len(defers[h]) = 1 /\ pc[h] = "return"
                 THEN pc' = [pc EXCEPT ![h] = "exited"]
                 ELSE pc' = pc
            /\ UNCHANGED << inputVars, mainVars, mu, failedInstalls, crashed,
                            user, attempt, dialErr, successfulUser, err,
                            stratVars, tmp, outcome >>

(* ----- the same goroutine, its strategy followed statement by statement ----- *)

\* whether a statement reaches the remote side: os.Stat and os.ReadFile are
\* local, a transfer is reached only when its file could be read, and
\* Session.Run on a started session returns before anything is sent
Remote(step, isStarted, e) ==
  CASE step \in { "stat", "zipRead" } -> FALSE
    [] step = "xferFile" -> e.local
    [] step = "updaterc" -> ~isStarted
    [] OTHER -> TRUE

\* isBuildroot := checkBuildroot(client), keeping what the call met: whether
\* the session was created, whether the command succeeded and whether its
\* output has the substring (no session: no command and no output)
DetectStep(h, sessOk, runOk, contains) ==
  /\ pc[h] = "detect"
  /\ ~sessOk => (~runOk /\ ~contains)
  /\ osRelease' = [osRelease EXCEPT ![h] =
                     [read |-> TRUE, sess |-> sessOk, run |-> runOk, contains |-> contains]]
  /\ isBuildroot' = [isBuildroot EXCEPT ![h] = checkBuildroot(sessOk, runOk, contains)]
  /\ touched' = [touched EXCEPT ![h] = TRUE]
  /\ pc' = [pc EXCEPT ![h] = "install"]
  /\ UNCHANGED << inputVars, mainVars, wg, sem, mu, failedInstalls, crashed,
                  defers, connVars, err, tmp, outcome, lldpdArg, at, started,
                  issued, faulted, password, sudoWith >>

\* the map credentials of main: each user name of the list with its secret
credentials == [u \in Range(usernames) |-> << "password", u >>]

\* the commands of installDeb that pipe the password argument to sudo -S
Privileged == { "zipInstall", "dpkg", "start", "verify" }

\* Call as it would be if installDeb were given password1 of the
\* configuration whatever the device type chosen
CallFirstSecret(h, lldpd) ==
  /\ pc[h] = "install"
  /\ at[h] = 0
  /\ isBuildroot[h] => ~lldpd
  /\ at' = [at EXCEPT ![h] = 1]
  /\ lldpdArg' = [lldpdArg EXCEPT ![h] = lldpd]
  /\ password' = [password EXCEPT ![h] =
                    IF isBuildroot[h] THEN NoPassword
                    ELSE << "password", 1 >>]
  /\ osRelease' = [osRelease EXCEPT ![h] = NoRelease]
  /\ UNCHANGED << inputVars, mainVars, wg, sem, mu, failedInstalls, crashed,
                  pc, defers, connVars, err, isBuildroot, touched, tmp,
                  outcome, started, issued, faulted, sudoWith >>

\* if isBuildroot { installBuildroot(client) } else { installDeb(client, ...,
\* credentials[successfulUser], installLldpd) }: the call is entered, its
\* first statement is next
Call(h, lldpd) ==
  /\ pc[h] = "install"
  /\ at[h] = 0
  /\ isBuildroot[h] => ~lldpd
  /\ at' = [at EXCEPT ![h] = 1]
  /\ lldpdArg' = [lldpdArg EXCEPT ![h] = lldpd]
  /\ password' = [password EXCEPT ![h] =
                    IF isBuildroot[h] THEN NoPassword
                    ELSE credentials[usernames[successfulUser[h]]]]
  /\ osRelease' = [osRelease EXCEPT ![h] = NoRelease]
  /\ UNCHANGED << inputVars, mainVars, wg, sem, mu, failedInstalls, crashed,
                  pc, defers, connVars, err, isBuildroot, touched, tmp,
                  outcome, started, issued, faulted, sudoWith >>

\* Step as it would be if a statement's error were kept but not returned
\* before the last statement
StepGoOn(h, e) ==
  /\ pc[h] = "install"
  /\ at[h] >= 1
  /\ LET steps == Steps(isBuildroot[h], lldpdArg[h])
         step == steps[at[h]]
         r == StepResult(step, started[h], e)
     IN  /\ e = EnvOK \/ r # "nil"
         /\ IF r = "panic"
              THEN Panic
              ELSE /\ issued' = [issued EXCEPT ![h] =
                                   IF Remote(step, started[h], e) THEN Append(@, step) ELSE @]
                   /\ sudoWith' = [sudoWith EXCEPT ![h] =
                                     IF ~isBuildroot[h] /\ step \in Privileged /\ e.sess
                                       THEN @ \cup { password[h] } ELSE @]
                   /\ IF at[h] < Len(steps)
                        THEN /\ at' = [at EXCEPT ![h] = @ + 1]
                             /\ started' = [started EXCEPT ![h] = StartedAfter(step, @)]
                             /\ err' = [err EXCEPT ![h] = IF r # "nil" THEN r ELSE @]
                             /\ UNCHANGED << pc, faulted >>
                        ELSE /\ pc' = [pc EXCEPT ![h] = "installed"]
                             /\ err' = [err EXCEPT ![h] = IF r # "nil" THEN r ELSE @]
                             /\ faulted' = [faulted EXCEPT ![h] = (e # EnvOK)]
                             /\ started' = [started EXCEPT ![h] = FALSE]
                             /\ UNCHANGED at
                   /\ UNCHANGED << inputVars, mainVars, wg, sem, mu,
                                   failedInstalls, crashed, defers, connVars,
                                   isBuildroot, touched, tmp, outcome,
                                   osRelease, lldpdArg, password >>

\* one statement of the strategy, meeting the answers e: on nil the next
\* statement follows, on an error the call returns it at once, after the last
\* statement the call returns nil; a panic of a transfer's goroutine ends the
\* process (answers that do not matter to the statement are left out)
Step(h, e) ==
  /\ pc[h] = "install"
  /\ at[h] >= 1
  /\ LET steps == Steps(isBuildroot[h], lldpdArg[h])
         step == steps[at[h]]
         r == StepResult(step, started[h], e)
     IN  /\ e = EnvOK \/ r # "nil"
         /\ IF r = "panic"
              THEN Panic
              ELSE /\ issued' = [issued EXCEPT ![h] =
                                   IF Remote(step, started[h], e) THEN Append(@, step) ELSE @]
                   /\ sudoWith' = [sudoWith EXCEPT ![h] =
                                     IF ~isBuildroot[h] /\ step \in Privileged /\ e.sess
                                       THEN @ \cup { password[h] } ELSE @]
                   /\ IF r = "nil" /\ at[h] < Len(steps)
                        THEN /\ at' = [at EXCEPT ![h] = @ + 1]
                             /\ started' = [started EXCEPT ![h] = StartedAfter(step, @)]
                             /\ UNCHANGED << pc, err, faulted >>
                        ELSE /\ pc' = [pc EXCEPT ![h] = "installed"]
                             /\ err' = [err EXCEPT ![h] = r]
                             /\ faulted' = [faulted EXCEPT ![h] = (e # EnvOK)]
                             /\ started' = [started EXCEPT ![h] = FALSE]
                             /\ UNCHANGED at
                   /\ UNCHANGED << inputVars, mainVars, wg, sem, mu,
                                   failedInstalls, crashed, defers, connVars,
                                   isBuildroot, touched, tmp, outcome,
                                   osRelease, lldpdArg, password >>

\* Record as it would be if a failed verification did not count as an error
RecordVerifyOk(h) ==
  /\ pc[h] = "installed"
  /\ outcome' = [outcome EXCEPT ![h] =
                   IF err[h] \notin { "nil", "verify" } THEN "InstallFailed" ELSE "Succeeded"]
  /\ pc' = [pc EXCEPT ![h] = IF err[h] \notin { "nil", "verify" } THEN "lock" ELSE "return"]
  /\ err' = [err EXCEPT ![h] = "nil"]
  /\ successfulUser' = [successfulUser EXCEPT ![h] = 0]
  /\ isBuildroot' = [isBuildroot EXCEPT ![h] = FALSE]
  /\ lldpdArg' = [lldpdArg EXCEPT ![h] = FALSE]
  /\ at' = [at EXCEPT ![h] = 0]
  /\ issued' = [issued EXCEPT ![h] = << >>]
  /\ faulted' = [faulted EXCEPT ![h] = FALSE]
  /\ password' = [password EXCEPT ![h] = NoPassword]
  /\ sudoWith' = [sudoWith EXCEPT ![h] = { }]
  /\ UNCHANGED << inputVars, mainVars, wg, sem, mu, failedInstalls, crashed,
                  defers, user, attempt, dialErr, client, touched, tmp,
                  osRelease, started >>

\* if err != nil { log "Failed to install"; mu.Lock() ... } else { log
\* "Successfully installed" }; nothing of the call is read after the log line
Record(h) ==
  /\ pc[h] = "installed"
  /\ outcome' = [outcome EXCEPT ![h] =
                   IF err[h] # "nil" THEN "InstallFailed" ELSE "Succeeded"]
  /\ pc' = [pc EXCEPT ![h] = IF err[h] # "nil" THEN "lock" ELSE "return"]
  /\ err' = [err EXCEPT ![h] = "nil"]
  /\ successfulUser' = [successfulUser EXCEPT ![h] = 0]
  /\ isBuildroot' = [isBuildroot EXCEPT ![h] = FALSE]
  /\ lldpdArg' = [lldpdArg EXCEPT ![h] = FALSE]
  /\ at' = [at EXCEPT ![h] = 0]
  /\ issued' = [issued EXCEPT ![h] = << >>]
  /\ faulted' = [faulted EXCEPT ![h] = FALSE]
  /\ password' = [password EXCEPT ![h] = NoPassword]
  /\ sudoWith' = [sudoWith EXCEPT ![h] = { }]
  /\ UNCHANGED << inputVars, mainVars, wg, sem, mu, failedInstalls, crashed,
                  defers, user, attempt, dialErr, client, touched, tmp,
                  osRelease, started >>

\* a process that panicked takes no further step: every position is "dead"
Next ==
  \/ Spawn
  \/ Wait
  \/ Summary
  \/ \E h \in Hosts : Acquire(h)
  \/ \E h \in Hosts, r \in DialResults : Dial(h, r)
  \/ \E h \in Hosts : Lock(h)
  \/ \E h \in Hosts : Unlock(h)
  \/ \E h \in Hosts, sessOk, runOk, contains \in BOOLEAN :
        Detect(h, sessOk, runOk, contains)
  \/ \E h \in Hosts, lldpd \in BOOLEAN, ke \in InstallEnvs :
        Install(h, lldpd, ke[1], ke[2])
  \/ \E h \in Hosts : RunDefer(h)

Spec == Init /\ [][Next]_vars

\* every goroutine and main run whenever they can: with a finite host list
\* every run is finite, so weak fairness of the next-state relation is what
\* the Go scheduler gives
FairSpec == Spec /\ WF_vars(Next)

\* the goroutine's code for the one-element lists of main and for the
\* longer lists of up to MaxCreds users
CredLists ==
  { [i \in 1..n |-> i] : n \in 1..MaxCreds } \cup { << c >> : c \in Choices }

CredInit ==
  /\ usernames \in CredLists
  /\ WorkersInit
  /\ reader = Off
  /\ push = Off
  /\ jitter = Off
  /\ updater = Off
  /\ ServiceOff

CredSpec == CredInit /\ [][Next]_vars

\* the program with each strategy call followed statement by statement
StepNext ==
  \/ Spawn
  \/ Wait
  \/ Summary
  \/ \E h \in Hosts : Acquire(h)
  \/ \E h \in Hosts, r \in DialResults : Dial(h, r)
  \/ \E h \in Hosts : Lock(h)
  \/ \E h \in Hosts : Unlock(h)
  \/ \E h \in Hosts, sessOk, runOk, contains \in BOOLEAN :
        DetectStep(h, sessOk, runOk, contains)
  \/ \E h \in Hosts, lldpd \in BOOLEAN : Call(h, lldpd)
  \/ \E h \in Hosts, e \in { EnvOK } \cup Faults : Step(h, e)
  \/ \E h \in Hosts : Record(h)
  \/ \E h \in Hosts : RunDefer(h)

StepSpec == Init /\ [][StepNext]_vars

(* ----- readIPsFromFile, on a file of up to MaxFileLen bytes ----- *)

MaxFileLen == 6
Chars == { "1", "2", " ", "\r", "\n" }
Files == UNION { [1..n -> Chars] : n \in 0..MaxFileLen }

\* the white space strings.TrimSpace removes (of the bytes in Chars)
White == { " ", "\r", "\n" }

\* strings.TrimSpace: the string without its leading and trailing white space
TrimSpace(s) ==
  LET black == { i \in 1..Len(s) : s[i] \notin White }
  IN  IF black = { } THEN << >>
      ELSE SubSeq(s, CHOOSE i \in black : \A j \in black : i <= j,
                     CHOOSE i \in black : \A j \in black : i >= j)

\* bufio's dropCR: the token without one trailing carriage return
dropCR(data) ==
  IF Len(data) > 0 /\ data[Len(data)] = "\r" THEN Front(data) ELSE data

\* bufio.ScanLines at the end of the input: the bytes up to the first newline
\* (or all of them when there is none), and the bytes consumed
ScanLines(data) ==
  LET nl == { i \in 1..Len(data) : data[i] = "\n" }
  IN  IF nl = { }
        THEN [advance |-> Len(data), token |-> dropCR(data)]
        ELSE LET i == CHOOSE k \in nl : \A j \in nl : k <= j
             IN  [advance |-> i, token |-> dropCR(SubSeq(data, 1, i - 1))]

\* the loop body as it would be without the test for the empty line
KeepLineNoSkip(ips, text) ==
  Append(ips, TrimSpace(text))

\* the loop body: line := strings.TrimSpace(scanner.Text()); if line != ""
\* { ips = append(ips, line) }
KeepLine(ips, text) ==
  LET line == TrimSpace(text)
  IN  IF line # << >> THEN Append(ips, line) ELSE ips

ReadInit ==
  /\ BatchInit
  /\ reader \in { [pc |-> "open", file |-> f, rest |-> f, ips |-> << >>,
                    err |-> "nil"] : f \in Files }
  /\ push = Off
  /\ jitter = Off
  /\ updater = Off
  /\ ServiceOff

\* os.Open: on an error readIPsFromFile returns nil and the error
Open(ok) ==
  /\ reader.pc = "open"
  /\ reader' = IF ok THEN [reader EXCEPT !.pc = "scan"]
                ELSE [reader EXCEPT !.pc = "done", !.err = "open"]
  /\ UNCHANGED << batchVars, serviceVars, push, jitter, updater >>

\* one turn of the loop: scanner.Scan() found a line
ScanLine ==
  /\ reader.pc = "scan"
  /\ reader.rest # << >>
  /\ LET t == ScanLines(reader.rest)
     IN  reader' = [reader EXCEPT
                      !.rest = SubSeq(@, t.advance + 1, Len(@)),
                      !.ips = KeepLine(@, t.token)]
  /\ UNCHANGED << batchVars, serviceVars, push, jitter, updater >>

\* scanner.Scan() returned false, at the end of the input or on a read
\* error: with scanner.Err() set nil and the error are returned, else ips
ScanEnd(readOk) ==
  /\ reader.pc = "scan"
  /\ readOk => reader.rest = << >>
  /\ reader' = IF readOk THEN [reader EXCEPT !.pc = "done"]
                ELSE [reader EXCEPT !.pc = "done", !.err = "read", !.ips = << >>]
  /\ UNCHANGED << batchVars, serviceVars, push, jitter, updater >>

ReadNext ==
  \/ \E ok \in BOOLEAN : Open(ok)
  \/ ScanLine
  \/ \E readOk \in BOOLEAN : ScanEnd(readOk)

ReadSpec == ReadInit /\ [][ReadNext]_vars

(* ----- the start-up delay of installBuildroot's init script ----- *)

MaxDraws == 3
NumInstalls == 2
Int31Max == 2147483647
DelayRange == 600

\* the largest value Int31n(n) accepts: (1<<31) - 1 - (1<<31) % n
Int31nMax(n) == Int31Max - (((Int31Max % n) + 1) % n)

\* values the generator's Int31() can give: the ends of the range, the ends
\* of the first residue class and the two sides of the rejection threshold
RawValues == { 0, 1, DelayRange - 1, DelayRange, Int31nMax(DelayRange),
               Int31nMax(DelayRange) + 1, Int31Max }

\* what rand.Seed(time.Now().UnixNano()) can select: the values Int31() will
\* return, one of which Int31n accepts
Streams ==
  { s \in [1..MaxDraws -> RawValues] :
      \E i \in 1..MaxDraws : s[i] <= Int31nMax(DelayRange) }

\* rand.Intn as it would be if the accepted value were returned as it is
RECURSIVE IntnNoMod(_, _, _)
IntnNoMod(n, stream, i) ==
  IF stream[i] > Int31nMax(n) THEN IntnNoMod(n, stream, i + 1)
  ELSE [value |-> stream[i], used |-> i]

\* rand.Intn(n) for a non-power of two n below 1<<31: v := Int31(); for
\* v > max { v = Int31() }; return v % n. i is the next value of the stream
RECURSIVE Intn(_, _, _)
Intn(n, stream, i) ==
  IF stream[i] > Int31nMax(n) THEN Intn(n, stream, i + 1)
  ELSE [value |-> stream[i] % n, used |-> i]

\* the verb %d of fmt.Sprintf: the decimal digits of a natural number
RECURSIVE Itoa(_)
Itoa(n) == IF n < 10 THEN << n >> ELSE Append(Itoa(n \div 10), n % 10)

\* the generated init script, as far as the delay goes: its line `sleep <d>`
initScript(randomDelay) == [sleep |-> Itoa(randomDelay)]

JitterInit ==
  /\ BatchInit
  /\ jitter = [pc |-> "seed", stream |-> << >>, used |-> 0, randomDelay |-> 0,
               script |-> << >>, installs |-> 0, drawn |-> 0]
  /\ reader = Off
  /\ push = Off
  /\ updater = Off
  /\ ServiceOff

\* rand.Seed(time.Now().UnixNano()), in each call of installBuildroot
Seed(s) ==
  /\ jitter.pc = "seed"
  /\ jitter.installs < NumInstalls
  /\ jitter' = [jitter EXCEPT !.pc = "intn", !.stream = s, !.used = 0,
                              !.script = << >>]
  /\ UNCHANGED << batchVars, serviceVars, reader, push, updater >>

\* randomDelay := rand.Intn(600)
RandomDelay ==
  /\ jitter.pc = "intn"
  /\ LET r == Intn(DelayRange, jitter.stream, 1)
     IN  jitter' = [jitter EXCEPT !.pc = "sprintf", !.randomDelay = r.value,
                                 !.used = r.used, !.drawn = @ + 1]
  /\ UNCHANGED << batchVars, serviceVars, reader, push, updater >>

\* initScript := fmt.Sprintf(`... sleep %d ...`, randomDelay); the call
\* goes on to push the script, the next call seeds again
FormatScript ==
  /\ jitter.pc = "sprintf"
  /\ jitter' = [jitter EXCEPT !.pc = "seed", !.script = initScript(jitter.randomDelay),
                              !.installs = @ + 1]
  /\ UNCHANGED << batchVars, serviceVars, reader, push, updater >>

JitterNext ==
  \/ \E s \in Streams : Seed(s)
  \/ RandomDelay
  \/ FormatScript

JitterSpec == JitterInit /\ [][JitterNext]_vars

(* ----- transferFile twice in a row, statement by statement ----- *)

MaxPayload == 2
\* the calls followed: a first one and the one after it
Pushes == { 1, 2 }
Bytes == { 0, 7 }
Payloads == UNION { [1..n -> Bytes] : n \in 0..MaxPayload }
Paths == { << "/", "t", "/", "d" >>, << "/", "o", "/", "s", "/", "c" >> }

\* filepath.Base for a path that does not end in a separator: what follows
\* the last separator
Base(path) ==
  LET seps == { i \in 1..Len(path) : path[i] = "/" }
  IN  IF seps = { } THEN path
      ELSE SubSeq(path, (CHOOSE i \in seps : \A j \in seps : i >= j) + 1, Len(path))

\* the header as it would be with the whole remote path as the file name
scpHeaderFullPath(data, remotePath) ==
  << "C0644", " ", Itoa(Len(data)), " ", remotePath, "\n" >>

\* fmt.Fprintf(w, "C0644 %d %s\n", len(data), filepath.Base(remotePath))
scpHeader(data, remotePath) ==
  << "C0644", " ", Itoa(Len(data)), " ", Base(remotePath), "\n" >>

\* scpCmd: the receive command for the destination path
scpCmd(remotePath) == [prog |-> "/usr/bin/scp", mode |-> "-t", path |-> remotePath]

NoSession == [state |-> "none", started |-> FALSE, cmd |-> << >>, stdin |-> << >>]
NoAnswers == [sess |-> TRUE, start |-> TRUE, exit |-> 0]

\* the process died of the goroutine's panic
Dead == [pc |-> "dead"]

PushInit ==
  /\ BatchInit
  /\ push \in { [pc |-> "new", call |-> 1, data |-> d, remotePath |-> p,
                  session |-> [i \in Pushes |-> NoSession],
                  cur |-> [k \in Pushes |-> 0],
                  writer |-> [k \in Pushes |-> [pc |-> "none", broken |-> FALSE]],
                  ans |-> [k \in Pushes |-> NoAnswers],
                  result |-> [k \in Pushes |-> "none"]] :
                d \in Payloads, p \in Paths }
  /\ reader = Off
  /\ jitter = Off
  /\ updater = Off
  /\ ServiceOff

\* transferFile has returned r: the deferred session.Close() has run and
\* the caller goes on to its next transferFile
Returned(q, r) ==
  LET k == q.call
      closed == IF q.cur[k] = 0 THEN q.session
                ELSE [q.session EXCEPT ![q.cur[k]].state = "closed"]
  IN  [q EXCEPT !.result[k] = r, !.session = closed,
                !.pc = IF k + 1 \in Pushes THEN "new" ELSE "done",
                !.call = IF k + 1 \in Pushes THEN k + 1 ELSE k]

\* the first statements as they would be if a later call took the session
\* of the first call
NewSessionReuse(ok) ==
  /\ push.pc = "new"
  /\ LET k == push.call
     IN  push' = IF ~ok
                   THEN Returned([push EXCEPT !.ans[k].sess = FALSE], "session")
                   ELSE [push EXCEPT !.cur[k] = 1,
                                     !.session[1].state = IF k = 1 THEN "open" ELSE @,
                                     !.writer[k].pc = "pipe",
                                     !.pc = "run"]
  /\ UNCHANGED << batchVars, serviceVars, reader, jitter, updater >>

\* session, err := client.NewSession(); if err != nil { return }; defer
\* session.Close(); go func() { ... }(): each call has a session of its own
NewSession(ok) ==
  /\ push.pc = "new"
  /\ LET k == push.call
     IN  push' = IF ~ok
                   THEN Returned([push EXCEPT !.ans[k].sess = FALSE], "session")
                   ELSE [push EXCEPT !.cur[k] = k,
                                     !.session[k].state = "open",
                                     !.writer[k].pc = "pipe",
                                     !.pc = "run"]
  /\ UNCHANGED << batchVars, serviceVars, reader, jitter, updater >>

\* session.Run(scpCmd), first half (Session.Start): on a started session
\* or a refused request it returns an error, and transferFile returns it
Start(ok) ==
  /\ push.pc = "run"
  /\ LET k == push.call
         i == push.cur[k]
     IN  push' = IF push.session[i].started \/ ~ok
                   THEN Returned([push EXCEPT !.ans[k].start = ok], "scp")
                   ELSE [push EXCEPT !.session[i].started = TRUE,
                                     !.session[i].cmd = scpCmd(push.remotePath),
                                     !.pc = "wait"]
  /\ UNCHANGED << batchVars, serviceVars, reader, jitter, updater >>

\* session.Run(scpCmd), second half (Session.Wait): nil when the remote
\* command exits with status 0, an error otherwise; transferFile returns
\* nil or "scp command failed"
RunWait(status) ==
  /\ push.pc = "wait"
  /\ push' = Returned([push EXCEPT !.ans[push.call].exit = status],
                      IF status = 0 THEN "nil" ELSE "scp")
  /\ UNCHANGED << batchVars, serviceVars, reader, jitter, updater >>

\* the goroutine: w, _ := session.StdinPipe(); defer w.Close(). StdinPipe
\* fails on a started session and w is nil: the goroutine panics
StdinPipe(k) ==
  /\ push.pc # "dead"
  /\ push.writer[k].pc = "pipe"
  /\ push' = IF push.session[push.cur[k]].started THEN Dead
              ELSE [push EXCEPT !.writer[k].pc = "header"]
  /\ UNCHANGED << batchVars, serviceVars, reader, jitter, updater >>

\* a write can succeed while the session is open and no earlier write failed
Writable(k) ==
  /\ push.session[push.cur[k]].state = "open"
  /\ ~push.writer[k].broken

\* fmt.Fprintf(w, "C0644 ..."): the result is dropped
WriteHeader(k, ok) ==
  /\ push.pc # "dead"
  /\ push.writer[k].pc = "header"
  /\ ok => Writable(k)
  /\ push' = [push EXCEPT
       !.session[push.cur[k]].stdin =
          IF ok THEN @ \o scpHeader(push.data, push.remotePath) ELSE @,
       !.writer[k].broken = ~ok,
       !.writer[k].pc = "payload"]
  /\ UNCHANGED << batchVars, serviceVars, reader, jitter, updater >>

\* w.Write(data): n bytes arrive; the result is dropped
WritePayload(k, n) ==
  /\ push.pc # "dead"
  /\ push.writer[k].pc = "payload"
  /\ n \in 0..Len(push.data)
  /\ ~Writable(k) => n = 0
  /\ push' = [push EXCEPT
       !.session[push.cur[k]].stdin = @ \o SubSeq(push.data, 1, n),
       !.writer[k].broken = ~Writable(k) \/ n < Len(push.data),
       !.writer[k].pc = "nul"]
  /\ UNCHANGED << batchVars, serviceVars, reader, jitter, updater >>

\* fmt.Fprint(w, "\x00"): the result is dropped
WriteTerminator(k, ok) ==
  /\ push.pc # "dead"
  /\ push.writer[k].pc = "nul"
  /\ ok => Writable(k)
  /\ push' = [push EXCEPT
       !.session[push.cur[k]].stdin = IF ok THEN Append(@, 0) ELSE @,
       !.writer[k].broken = @ \/ ~ok,
       !.writer[k].pc = "close"]
  /\ UNCHANGED << batchVars, serviceVars, reader, jitter, updater >>

\* the deferred w.Close(): the goroutine ends
CloseWriter(k) ==
  /\ push.pc # "dead"
  /\ push.writer[k].pc = "close"
  /\ push' = [push EXCEPT !.writer[k].pc = "done"]
  /\ UNCHANGED << batchVars, serviceVars, reader, jitter, updater >>

PushNext ==
  \/ \E ok \in BOOLEAN : NewSession(ok)
  \/ \E ok \in BOOLEAN : Start(ok)
  \/ \E status \in 0..1 : RunWait(status)
  \/ \E k \in Pushes : StdinPipe(k)
  \/ \E k \in Pushes, ok \in BOOLEAN : WriteHeader(k, ok)
  \/ \E k \in Pushes, n \in 0..MaxPayload : WritePayload(k, n)
  \/ \E k \in Pushes, ok \in BOOLEAN : WriteTerminator(k, ok)
  \/ \E k \in Pushes : CloseWriter(k)

PushSpec == PushInit /\ [][PushNext]_vars

(* ----- the service's self-updater: CheckForUpdates and UpdateBuildroot ----- *)

MaxChecks == 3

\* the byte values of the characters of a version string
Code == [c \in { ".", "0", "1", "2", "9", "U" } |->
           CASE c = "." -> 46 [] c = "0" -> 48 [] c = "1" -> 49
             [] c = "2" -> 50 [] c = "9" -> 57 [] c = "U" -> 85]

\* the versions 1.2, 1.9 and 1.10
Versions == { << "1", ".", "2" >>, << "1", ".", "9" >>, << "1", ".", "1", "0" >> }

\* what GetUpdaterVersion returns when dpkg-query fails ("Unknown"; its
\* first byte decides every comparison with a version)
Unknown == << "U" >>

\* Go's <= on strings: byte by byte, a proper prefix being smaller
RECURSIVE StringLE(_, _)
StringLE(a, b) ==
  IF a = << >> THEN TRUE
  ELSE IF b = << >> THEN FALSE
  ELSE IF Code[Head(a)] < Code[Head(b)] THEN TRUE
  ELSE IF Code[Head(a)] > Code[Head(b)] THEN FALSE
  ELSE StringLE(Tail(a), Tail(b))

\* the files a download can deliver: the published one and a damaged one
Contents == { "published", "damaged" }

\* hex.EncodeToString(md5 of the content): different for different contents
md5hex(content) == << "md5", content >>

\* verifyChecksum as it would be if it only tested that the file opens
verifyChecksumOpenOnly(openOk, content, expectedChecksum) ==
  openOk

\* verifyChecksum: false when the file cannot be read, otherwise whether
\* the computed checksum is the expected string
verifyChecksum(openOk, content, expectedChecksum) ==
  IF ~openOk THEN FALSE
  ELSE md5hex(content) = expectedChecksum

\* helpers.GetUpdaterVersion: the installed version, "Unknown" on an error
GetUpdaterVersion(queryOk, installed) == IF queryOk THEN installed ELSE Unknown

\* the values of the metadata's debian_url or buildroot_url
Urls == { "", "https://updates/status-updater" }

NoMetadata == [version |-> << >>, url |-> "", checksum |-> << >>]

\* the device, its installed version and the metadata the server publishes
\* (version, URL or checksum possibly empty, the checksum possibly that of
\* another file); the metadata stays the same over the checks
UpdateInit ==
  /\ BatchInit
  /\ updater \in
       { [pc |-> "idle", buildroot |-> b, current |-> c,
          published |-> [version |-> v, url |-> l, checksum |-> k],
          metadata |-> NoMetadata, file |-> "none", checks |-> 0,
          installs |-> << >>, exits |-> 0, log |-> << >>] :
         b \in BOOLEAN, c \in Versions, v \in Versions \cup { << >> },
         l \in Urls,
         k \in { md5hex(x) : x \in Contents } \cup { << >> } }
  /\ reader = Off
  /\ push = Off
  /\ jitter = Off
  /\ ServiceOff

\* the check returns without installing; why is kept
GiveUp(u, why) ==
  [u EXCEPT !.pc = "idle", !.metadata = NoMetadata, !.file = "none",
            !.log = Append(@, why)]

\* main calls updater.CheckForUpdates() at start-up and after each random
\* interval; on Buildroot it hands over to UpdateBuildroot
CheckForUpdates ==
  /\ updater.pc = "idle"
  /\ updater.checks < MaxChecks
  /\ updater' = [updater EXCEPT !.pc = "fetch", !.checks = @ + 1]
  /\ UNCHANGED << batchVars, serviceVars, reader, push, jitter >>

\* the metadata request: a transport error, a status other than 200 (only
\* the Debian flow looks at it) or a body that does not decode end the check
FetchMetadata(r) ==
  /\ updater.pc = "fetch"
  /\ updater' =
       IF r = "ok" \/ (r = "status" /\ updater.buildroot)
         THEN [updater EXCEPT !.pc = "validate", !.metadata = updater.published]
         ELSE GiveUp(updater, "metadata")
  /\ UNCHANGED << batchVars, serviceVars, reader, push, jitter >>

\* if metadata.Version == "" || ... URL == "" || ... Checksum == "" { return }
Validate ==
  /\ updater.pc = "validate"
  /\ updater' =
       IF \/ updater.metadata.version = << >>
          \/ updater.metadata.url = ""
          \/ updater.metadata.checksum = << >>
         THEN GiveUp(updater, "metadata")
         ELSE [updater EXCEPT !.pc = IF updater.buildroot THEN "download" ELSE "compare"]
  /\ UNCHANGED << batchVars, serviceVars, reader, push, jitter >>

\* the Debian flow only: if metadata.Version <= currentVersion { return }
CompareVersion(queryOk) ==
  /\ updater.pc = "compare"
  /\ updater' =
       IF StringLE(updater.metadata.version,
                   GetUpdaterVersion(queryOk, updater.current))
         THEN GiveUp(updater, "nonew")
         ELSE [updater EXCEPT !.pc = "download"]
  /\ UNCHANGED << batchVars, serviceVars, reader, push, jitter >>

\* the download: a transport error, a status other than 200 or a failure to
\* save the body end the check; otherwise the temporary file has content c
Download(r, c) ==
  /\ updater.pc = "download"
  /\ updater' =
       IF r = "ok" THEN [updater EXCEPT !.pc = "verify", !.file = c]
       ELSE GiveUp(updater, "download")
  /\ UNCHANGED << batchVars, serviceVars, reader, push, jitter >>

\* if !verifyChecksum(tmpFile, metadata.Checksum) { return }
Verify(openOk) ==
  /\ updater.pc = "verify"
  /\ updater' =
       IF verifyChecksum(openOk, updater.file, updater.metadata.checksum)
         THEN [updater EXCEPT !.pc = "install"]
         ELSE GiveUp(updater, "checksum")
  /\ UNCHANGED << batchVars, serviceVars, reader, push, jitter >>

\* sudo dpkg -i on Debian, tar -xJf and ./deploy.sh on Buildroot: on an
\* error the check returns, otherwise the new version is installed
InstallUpdate(ok) ==
  /\ updater.pc = "install"
  /\ updater' =
       IF ~ok THEN GiveUp(updater, "install")
       ELSE [updater EXCEPT
               !.pc = "exit",
               !.installs = Append(@, [check |-> updater.checks,
                                       from |-> updater.current,
                                       to |-> updater.metadata.version,
                                       sum |-> md5hex(updater.file),
                                       expected |-> updater.metadata.checksum]),
               !.current = updater.metadata.version,
               !.log = Append(@, "installed")]
  /\ UNCHANGED << batchVars, serviceVars, reader, push, jitter >>

\* os.Exit(0): the service manager starts the new version, whose main
\* checks for updates again
OsExit ==
  /\ updater.pc = "exit"
  /\ updater' = [updater EXCEPT !.pc = "idle", !.exits = @ + 1,
                                !.metadata = NoMetadata, !.file = "none"]
  /\ UNCHANGED << batchVars, serviceVars, reader, push, jitter >>

UpdateNext ==
  \/ CheckForUpdates
  \/ \E r \in { "ok", "error", "status", "garbage" } : FetchMetadata(r)
  \/ Validate
  \/ \E queryOk \in BOOLEAN : CompareVersion(queryOk)
  \/ \E r \in { "ok", "error", "status", "save" }, c \in Contents : Download(r, c)
  \/ \E openOk \in BOOLEAN : Verify(openOk)
  \/ \E ok \in BOOLEAN : InstallUpdate(ok)
  \/ OsExit

UpdateSpec == UpdateInit /\ [][UpdateNext]_vars

(* ----- the service: sendStatusUpdate and the message buffer ----- *)

MaxUpdates == 3
maxStatusRetries == 3

\* the keys of the status payload: the two that are always sent and two of
\* the others (one of them the date)
Keys == { "status", "deviceID", "temp", "date" }
AlwaysSent == { "status", "deviceID" }

\* the payloads the gatherers can give
Messages ==
  { [k \in Keys |-> CASE k = "status" -> "Online" [] k = "deviceID" -> d
                       [] k = "temp" -> t [] k = "date" -> x] :
      d \in { "b8:27", "unknown" }, t \in { "41.0", "42.5" },
      x \in { "10:00:00Z", "10:05:00Z" } }

\* make(map[string]interface{})
EmptyMap == [k \in { } |-> "nil"]

\* m[key] of a Go map: nil for a missing key
Get(m, key) == IF key \in DOMAIN m THEN m[key] ELSE "nil"

\* changedFields as it would be without the two keys that are always sent
ChangedFieldsOnlyChanges(buffer, message) ==
  IF DOMAIN buffer = { } THEN message
  ELSE [k \in { key \in DOMAIN message : Get(buffer, key) # message[key] } |->
          message[k]]

\* isFirstRun := len(messageBuffer) == 0; on the first run changedFields is
\* the message, otherwise status, deviceID and every other key whose value
\* is not reflect.DeepEqual to the buffered one
ChangedFields(buffer, message) ==
  IF DOMAIN buffer = { } THEN message
  ELSE [k \in AlwaysSent \cup
                { key \in DOMAIN message :
                    key \notin AlwaysSent /\ Get(buffer, key) # message[key] } |->
          message[k]]

\* the buffer update as it would be replacing the buffer by changedFields
StoreReplace(buffer, changedFields, message) == changedFields

\* for k, v := range changedFields { messageBuffer[k] = v }
Store(buffer, changedFields, message) ==
  [k \in DOMAIN buffer \cup DOMAIN changedFields |->
     IF k \in DOMAIN changedFields THEN changedFields[k] ELSE buffer[k]]

\* err is main's variable, last assigned by strconv.Atoi of the formatted
\* integer config.Current.SleepInterval, which always parses: it is nil
\* when the goroutines start and nothing assigns it afterwards
StatusInit ==
  /\ BatchInit
  /\ sender = [pc |-> "idle", calls |-> 0, attempt |-> 0, err |-> "nil",
               messageBuffer |-> EmptyMap, message |-> EmptyMap,
               changedFields |-> EmptyMap, acked |-> EmptyMap,
               sent |-> 0, ended |-> "none"]
  /\ publisher = Off
  /\ service = Off
  /\ fleet = Off
  /\ reader = Off
  /\ push = Off
  /\ jitter = Off
  /\ updater = Off

\* the update loop calls sendStatusUpdate(): the attempt loop starts
SendStatusUpdate ==
  /\ sender.pc = "idle"
  /\ sender.calls < MaxUpdates
  /\ sender' = [sender EXCEPT !.pc = "check", !.calls = @ + 1, !.attempt = 1,
                              !.sent = 0, !.ended = "none",
                              !.message = EmptyMap, !.changedFields = EmptyMap]
  /\ UNCHANGED << batchVars, reader, push, jitter, updater, publisher, service,
                  fleet >>

\* if !helpers.IsInternetAvailable(): sleep and continue before the last
\* attempt, return at the last one
CheckInternet(ok) ==
  /\ sender.pc = "check"
  /\ sender' =
       IF ok THEN [sender EXCEPT !.pc = "gather"]
       ELSE IF sender.attempt < maxStatusRetries
         THEN [sender EXCEPT !.attempt = @ + 1]
         ELSE [sender EXCEPT !.pc = "idle", !.ended = "nointernet"]
  /\ UNCHANGED << batchVars, reader, push, jitter, updater, publisher, service,
                  fleet >>

\* the gatherers build the payload; a panic in one of them is recovered by
\* the deferred function and the inner function returns
Gather(ok, m) ==
  /\ sender.pc = "gather"
  /\ sender' =
       IF ok THEN [sender EXCEPT !.pc = "compare", !.message = m]
       ELSE [sender EXCEPT !.pc = "after", !.ended = "panic"]
  /\ UNCHANGED << batchVars, reader, push, jitter, updater, publisher, service,
                  fleet >>

\* the comparison with the buffer under the read lock; with no changed
\* field the update is skipped
Compare ==
  /\ sender.pc = "compare"
  /\ LET c == ChangedFields(sender.messageBuffer, sender.message)
     IN  sender' =
           IF DOMAIN c # { }
             THEN [sender EXCEPT !.pc = "marshal", !.changedFields = c]
             ELSE [sender EXCEPT !.pc = "after", !.changedFields = c,
                                 !.ended = "nochange"]
  /\ UNCHANGED << batchVars, reader, push, jitter, updater, publisher, service,
                  fleet >>

\* messageJSON, err := json.Marshal(changedFields); on an error return
Marshal(ok) ==
  /\ sender.pc = "marshal"
  /\ sender' =
       IF ok THEN [sender EXCEPT !.pc = "publish"]
       ELSE [sender EXCEPT !.pc = "after", !.ended = "marshal"]
  /\ UNCHANGED << batchVars, reader, push, jitter, updater, publisher, service,
                  fleet >>

\* err = mqtt.PublishMQTTMessage(topic, string(messageJSON)), err being the
\* variable declared with messageJSON: on an error the inner function logs,
\* sleeps before the last attempt and returns
Publish(ok) ==
  /\ sender.pc = "publish"
  /\ sender' =
       IF ok
         THEN [sender EXCEPT
                 !.pc = "update", !.sent = @ + 1,
                 !.acked = [k \in DOMAIN @ \cup DOMAIN sender.changedFields |->
                              IF k \in DOMAIN sender.changedFields
                                THEN sender.changedFields[k] ELSE @[k]]]
         ELSE [sender EXCEPT !.pc = "after", !.sent = @ + 1, !.ended = "pubfail"]
  /\ UNCHANGED << batchVars, reader, push, jitter, updater, publisher, service,
                  fleet >>

\* the buffer update under the write lock, then return
UpdateBuffer ==
  /\ sender.pc = "update"
  /\ sender' = [sender EXCEPT
                  !.pc = "after", !.ended = "published",
                  !.messageBuffer = Store(@, sender.changedFields, sender.message)]
  /\ UNCHANGED << batchVars, reader, push, jitter, updater, publisher, service,
                  fleet >>

\* after the inner function: if err != nil { sleep before the last attempt;
\* next attempt } else { break }, on main's err
AfterAttempt ==
  /\ sender.pc = "after"
  /\ sender' =
       IF sender.err # "nil" /\ sender.attempt < maxStatusRetries
         THEN [sender EXCEPT !.pc = "check", !.attempt = @ + 1]
         ELSE [sender EXCEPT !.pc = "idle"]
  /\ UNCHANGED << batchVars, reader, push, jitter, updater, publisher, service,
                  fleet >>

StatusNext ==
  \/ SendStatusUpdate
  \/ \E ok \in BOOLEAN : CheckInternet(ok)
  \/ \E ok \in BOOLEAN, m \in Messages : Gather(ok, m)
  \/ Compare
  \/ \E ok \in BOOLEAN : Marshal(ok)
  \/ \E ok \in BOOLEAN : Publish(ok)
  \/ UpdateBuffer
  \/ AfterAttempt

StatusSpec == StatusInit /\ [][StatusNext]_vars

(* ----- the service: PublishMQTTMessage ----- *)

MaxPublishes == 2
maxPublishRetries == 3

\* the ways an attempt can fail after the client was created
ConnectionFailures == { "lost", "connTimeout" }
PublishFailures == { "pubErr", "pubTimeout" }

PublishInit ==
  /\ BatchInit
  /\ publisher = [pc |-> "idle", calls |-> 0, attempt |-> 0, client |-> << >>,
                  outcome |-> "none", log |-> << >>, returned |-> "none"]
  /\ sender = Off
  /\ service = Off
  /\ fleet = Off
  /\ reader = Off
  /\ push = Off
  /\ jitter = Off
  /\ updater = Off

\* a call of PublishMQTTMessage: maxRetries := 3, attempt := 1
PublishMQTTMessage ==
  /\ publisher.pc \in { "idle", "returned" }
  /\ publisher.calls < MaxPublishes
  /\ publisher' = [publisher EXCEPT !.pc = "options", !.calls = @ + 1,
                                    !.attempt = 1, !.client = << >>,
                                    !.outcome = "none", !.log = << >>,
                                    !.returned = "none"]
  /\ UNCHANGED << batchVars, reader, push, jitter, updater, sender, service,
                  fleet >>

\* opts, err := initialize.InitializeMQTTClientOptions(); with the options
\* the handlers are set and client := MQTT.NewClient(opts)
InitializeMQTTClientOptions(ok) ==
  /\ publisher.pc = "options"
  /\ publisher' =
       IF ok
         THEN [publisher EXCEPT !.pc = "connect",
                                !.client = Append(@, "created")]
         ELSE [publisher EXCEPT !.pc = "end", !.outcome = "optsErr",
                                !.log = Append(@, "optsErr")]
  /\ UNCHANGED << batchVars, reader, push, jitter, updater, sender, service,
                  fleet >>

\* token := client.Connect(); token.Wait() && token.Error() != nil
Connect(ok) ==
  /\ publisher.pc = "connect"
  /\ publisher' =
       IF ok THEN [publisher EXCEPT !.pc = "confirm"]
       ELSE [publisher EXCEPT !.pc = "disconnect", !.outcome = "connErr",
                              !.log = Append(@, "connErr")]
  /\ UNCHANGED << batchVars, reader, push, jitter, updater, sender, service,
                  fleet >>

\* the select on connectionSuccess, connectionFailed and the 5 s timer
AwaitConnection(r) ==
  /\ publisher.pc = "confirm"
  /\ publisher' =
       IF r = "ok" THEN [publisher EXCEPT !.pc = "publish"]
       ELSE [publisher EXCEPT !.pc = "disconnect", !.outcome = r,
                              !.log = Append(@, r)]
  /\ UNCHANGED << batchVars, reader, push, jitter, updater, sender, service,
                  fleet >>

\* the goroutine publishes with QoS 1 and reports token.Error(); the select
\* on publishComplete and the 10 s context
AwaitPublish(r) ==
  /\ publisher.pc = "publish"
  /\ publisher' = [publisher EXCEPT !.pc = "disconnect", !.outcome = r,
                                    !.log = Append(@, r)]
  /\ UNCHANGED << batchVars, reader, push, jitter, updater, sender, service,
                  fleet >>

\* client.Disconnect(250) as it would be made after a publish only
DisconnectAfterPublish ==
  /\ publisher.pc = "disconnect"
  /\ publisher' =
       [publisher EXCEPT
          !.pc = "end",
          !.client = IF publisher.outcome \in PublishFailures \cup { "ok" }
                       THEN [@ EXCEPT ![Len(@)] = "disconnected"] ELSE @]
  /\ UNCHANGED << batchVars, reader, push, jitter, updater, sender, service,
                  fleet >>

\* client.Disconnect(250), on every path that has created a client
Disconnect ==
  /\ publisher.pc = "disconnect"
  /\ publisher' = [publisher EXCEPT
                     !.pc = "end",
                     !.client = [@ EXCEPT ![Len(@)] = "disconnected"]]
  /\ UNCHANGED << batchVars, reader, push, jitter, updater, sender, service,
                  fleet >>

\* return nil after a publish without error; otherwise return the error at
\* the last attempt, or sleep attempt seconds and continue
AttemptEnd ==
  /\ publisher.pc = "end"
  /\ publisher' =
       IF publisher.outcome = "ok"
         THEN [publisher EXCEPT !.pc = "returned", !.returned = "nil"]
       ELSE IF publisher.attempt = maxPublishRetries
         THEN [publisher EXCEPT !.pc = "returned", !.returned = "error"]
         ELSE [publisher EXCEPT !.pc = "options", !.attempt = @ + 1,
                                !.outcome = "none"]
  /\ UNCHANGED << batchVars, reader, push, jitter, updater, sender, service,
                  fleet >>

PublishNext ==
  \/ PublishMQTTMessage
  \/ \E ok \in BOOLEAN : InitializeMQTTClientOptions(ok)
  \/ \E ok \in BOOLEAN : Connect(ok)
  \/ \E r \in ConnectionFailures \cup { "ok" } : AwaitConnection(r)
  \/ \E r \in PublishFailures \cup { "ok" } : AwaitPublish(r)
  \/ Disconnect
  \/ AttemptEnd

PublishSpec == PublishInit /\ [][PublishNext]_vars

(* ----- the service: goroutines and shutdown ----- *)

MaxTicks == 2

\* config.Current.SleepInterval: LoadConfig neither tests it nor gives it a
\* default (a missing key or a missing file leaves 0), and main's fallback
\* to 300 is not reachable, Atoi of a formatted integer never failing
SleepIntervals == { -1, 0, 300 }

\* the state of main after context.WithCancel and var wg sync.WaitGroup
ShutdownInit ==
  /\ BatchInit
  /\ service \in
       { [main |-> "start", ctx |-> "live", wg |-> 0,
          monitor |-> "none", loop |-> "none", checker |-> "none",
          sends |-> 0, checks |-> 0, sleepInterval |-> i] :
         i \in SleepIntervals }
  /\ sender = Off
  /\ publisher = Off
  /\ fleet = Off
  /\ reader = Off
  /\ push = Off
  /\ jitter = Off
  /\ updater = Off

\* the process runs until HandleShutdown's os.Exit(0) ("exited"), the
\* updater's os.Exit(0) after an installed update ("updated") or an
\* unrecovered panic of a goroutine ("panicked")
Alive == service.main \notin { "off", "exited", "updated", "panicked" }

\* ticker := time.NewTicker(time.Duration(sleepInterval) * time.Second) in
\* the update loop: NewTicker panics on an interval that is not positive,
\* the goroutine has no recover and the process ends
NewTicker(sv) ==
  IF sv.sleepInterval <= 0 THEN [sv EXCEPT !.main = "panicked"]
  ELSE [sv EXCEPT !.loop = "ticker"]

\* wg.Add(1); go func() { defer wg.Done(); system.MonitorNetworkChanges(ctx) }()
SpawnMonitor ==
  /\ service.main = "start"
  /\ service' = [service EXCEPT !.main = "monitored", !.wg = @ + 1,
                                !.monitor = "select"]
  /\ UNCHANGED << batchVars, reader, push, jitter, updater, sender, publisher,
                  fleet >>

\* go func() { sendStatusUpdate(); ... }(), with no wg.Add
SpawnLoop ==
  /\ service.main = "monitored"
  /\ service' = [service EXCEPT !.main = "check", !.loop = "sending"]
  /\ UNCHANGED << batchVars, reader, push, jitter, updater, sender, publisher,
                  fleet >>

\* updater.CheckForUpdates() in main: it returns, or after an installed
\* update it ends the process with os.Exit(0)
FirstCheck(installed) ==
  /\ service.main = "check"
  /\ service' = [service EXCEPT
                   !.main = IF installed THEN "updated" ELSE "checked"]
  /\ UNCHANGED << batchVars, reader, push, jitter, updater, sender, publisher,
                  fleet >>

\* go func() { for { select ... } }(), with no wg.Add; then
\* system.HandleShutdown(cancel, &wg): signal.Notify and <-sigChan
SpawnChecker ==
  /\ service.main = "checked"
  /\ service' = [service EXCEPT !.main = "sigwait", !.checker = "select"]
  /\ UNCHANGED << batchVars, reader, push, jitter, updater, sender, publisher,
                  fleet >>

\* a termination signal arrives: cancel()
Signal ==
  /\ service.main = "sigwait"
  /\ service' = [service EXCEPT !.main = "wgwait", !.ctx = "cancelled"]
  /\ UNCHANGED << batchVars, reader, push, jitter, updater, sender, publisher,
                  fleet >>

\* wg.Wait() returns when the counter is zero; then os.Exit(0)
Exit ==
  /\ service.main = "wgwait"
  /\ service.wg = 0
  /\ service' = [service EXCEPT !.main = "exited"]
  /\ UNCHANGED << batchVars, reader, push, jitter, updater, sender, publisher,
                  fleet >>

\* MonitorNetworkChanges: case <-ticker.C compares the interfaces
MonitorTick ==
  /\ Alive
  /\ service.monitor = "select"
  /\ service' = [service EXCEPT !.monitor = "poll"]
  /\ UNCHANGED << batchVars, reader, push, jitter, updater, sender, publisher,
                  fleet >>

MonitorPolled ==
  /\ Alive
  /\ service.monitor = "poll"
  /\ service' = [service EXCEPT !.monitor = "select"]
  /\ UNCHANGED << batchVars, reader, push, jitter, updater, sender, publisher,
                  fleet >>

\* MonitorNetworkChanges: case <-ctx.Done() returns, and the deferred
\* wg.Done() runs
MonitorDone ==
  /\ Alive
  /\ service.monitor = "select"
  /\ service.ctx = "cancelled"
  /\ service' = [service EXCEPT !.monitor = "returned", !.wg = @ - 1]
  /\ UNCHANGED << batchVars, reader, push, jitter, updater, sender, publisher,
                  fleet >>

\* sendStatusUpdate() returns in the update loop: after the first one the
\* initial delay is waited for if the marker file is missing, otherwise
\* the ticker is created and the loop entered; after a later one the loop
\* goes on
LoopSent(first) ==
  /\ Alive
  /\ service.loop = "sending"
  /\ LET sv == [service EXCEPT !.sends = @ + 1]
     IN  service' =
           IF service.sends > 0 THEN [sv EXCEPT !.loop = "ticker"]
           ELSE IF first THEN [sv EXCEPT !.loop = "delay"]
           ELSE NewTicker(sv)
  /\ UNCHANGED << batchVars, reader, push, jitter, updater, sender, publisher,
                  fleet >>

\* case <-time.After(randomDelay): the marker file is written, then the
\* ticker is created
LoopDelayed ==
  /\ Alive
  /\ service.loop = "delay"
  /\ service' = NewTicker(service)
  /\ UNCHANGED << batchVars, reader, push, jitter, updater, sender, publisher,
                  fleet >>

\* case <-ticker.C: sendStatusUpdate()
LoopTick ==
  /\ Alive
  /\ service.loop = "ticker"
  /\ service.sends <= MaxTicks
  /\ service' = [service EXCEPT !.loop = "sending"]
  /\ UNCHANGED << batchVars, reader, push, jitter, updater, sender, publisher,
                  fleet >>

\* case <-ctx.Done(): return, in either select of the update loop
LoopDone ==
  /\ Alive
  /\ service.loop \in { "delay", "ticker" }
  /\ service.ctx = "cancelled"
  /\ service' = [service EXCEPT !.loop = "returned"]
  /\ UNCHANGED << batchVars, reader, push, jitter, updater, sender, publisher,
                  fleet >>

\* case <-time.After(randomDelay): updater.CheckForUpdates()
CheckerFire ==
  /\ Alive
  /\ service.checker = "select"
  /\ service.checks < MaxTicks
  /\ service' = [service EXCEPT !.checker = "checking", !.checks = @ + 1]
  /\ UNCHANGED << batchVars, reader, push, jitter, updater, sender, publisher,
                  fleet >>

\* updater.CheckForUpdates() in the checker: it returns and the loop goes
\* on, or after an installed update it ends the process with os.Exit(0)
CheckerChecked(installed) ==
  /\ Alive
  /\ service.checker = "checking"
  /\ service' = IF installed THEN [service EXCEPT !.main = "updated"]
                ELSE [service EXCEPT !.checker = "select"]
  /\ UNCHANGED << batchVars, reader, push, jitter, updater, sender, publisher,
                  fleet >>

\* case <-ctx.Done(): return
CheckerDone ==
  /\ Alive
  /\ service.checker = "select"
  /\ service.ctx = "cancelled"
  /\ service' = [service EXCEPT !.checker = "returned"]
  /\ UNCHANGED << batchVars, reader, push, jitter, updater, sender, publisher,
                  fleet >>

ShutdownNext ==
  \/ SpawnMonitor
  \/ SpawnLoop
  \/ \E installed \in BOOLEAN : FirstCheck(installed)
  \/ SpawnChecker
  \/ Signal
  \/ Exit
  \/ MonitorTick
  \/ MonitorPolled
  \/ MonitorDone
  \/ \E first \in BOOLEAN : LoopSent(first)
  \/ LoopDelayed
  \/ LoopTick
  \/ LoopDone
  \/ CheckerFire
  \/ \E installed \in BOOLEAN : CheckerChecked(installed)
  \/ CheckerDone

ShutdownSpec == ShutdownInit /\ [][ShutdownNext]_vars

(* ----- the batch over more hosts than slots, the goroutines counted ----- *)

FleetSize == 11

\* where a goroutine of the batch can be: before the send on sem, inside
\* the credential loop, connected (detection and strategy), returning with
\* client.Close() to run, with <-sem to run, with wg.Done() to run
Phases == { "acquire", "dial", "open", "close", "release", "done" }

\* main before the range loop over ips: no goroutine yet, sem empty
FleetInit ==
  /\ BatchInit
  /\ fleet = [pc |-> "spawn", spawned |-> 0, wg |-> 0, sem |-> 0,
              failed |-> 0, exited |-> 0, phase |-> [p \in Phases |-> 0]]
  /\ sender = Off
  /\ publisher = Off
  /\ service = Off
  /\ reader = Off
  /\ push = Off
  /\ jitter = Off
  /\ updater = Off

\* one goroutine goes from phase p to phase q
Move(f, p, q) ==
  [f EXCEPT !.phase = [@ EXCEPT ![p] = @ - 1, ![q] = @ + 1]]

\* wg.Add(1); go func(host){ defer wg.Done(); ... }(host), for the next host
FleetSpawn ==
  /\ fleet.pc = "spawn"
  /\ fleet' = [fleet EXCEPT
                 !.spawned = @ + 1, !.wg = @ + 1,
                 !.phase = [@ EXCEPT !["acquire"] = @ + 1],
                 !.pc = IF fleet.spawned + 1 = FleetSize THEN "wait" ELSE "spawn"]
  /\ UNCHANGED << batchVars, reader, push, jitter, updater, sender, publisher,
                  service >>

\* FleetAcquire as it would be with an unbounded channel
FleetAcquireNoLimit ==
  /\ fleet.pc \in { "spawn", "wait" }
  /\ fleet.phase["acquire"] > 0
  /\ fleet' = [Move(fleet, "acquire", "dial") EXCEPT !.sem = @ + 1]
  /\ UNCHANGED << batchVars, reader, push, jitter, updater, sender, publisher,
                  service >>

\* sem <- struct{}{} blocks while the channel is full; defer func(){ <-sem }()
FleetAcquire ==
  /\ fleet.pc \in { "spawn", "wait" }
  /\ fleet.phase["acquire"] > 0
  /\ fleet.sem < SemSize
  /\ fleet' = [Move(fleet, "acquire", "dial") EXCEPT !.sem = @ + 1]
  /\ UNCHANGED << batchVars, reader, push, jitter, updater, sender, publisher,
                  service >>

\* the credential loop ends: connected, defer client.Close(); or not, the
\* host is appended to failedInstalls under mu and the goroutine returns
FleetConnect(ok) ==
  /\ fleet.pc \in { "spawn", "wait" }
  /\ fleet.phase["dial"] > 0
  /\ fleet' = IF ok THEN Move(fleet, "dial", "open")
              ELSE [Move(fleet, "dial", "release") EXCEPT !.failed = @ + 1]
  /\ UNCHANGED << batchVars, reader, push, jitter, updater, sender, publisher,
                  service >>

\* detection and strategy end: without error, with an error (the host is
\* appended to failedInstalls under mu), or with the panic of a transfer's
\* goroutine, which ends the process; otherwise the goroutine returns
FleetInstall(r) ==
  /\ fleet.pc \in { "spawn", "wait" }
  /\ fleet.phase["open"] > 0
  /\ fleet' =
       CASE r = "ok" -> Move(fleet, "open", "close")
         [] r = "error" -> [Move(fleet, "open", "close") EXCEPT !.failed = @ + 1]
         [] r = "panic" -> [fleet EXCEPT !.pc = "dead", !.wg = 0, !.sem = 0,
                                         !.phase = [p \in Phases |-> 0]]
  /\ UNCHANGED << batchVars, reader, push, jitter, updater, sender, publisher,
                  service >>

\* the deferred client.Close()
FleetClose ==
  /\ fleet.pc \in { "spawn", "wait" }
  /\ fleet.phase["close"] > 0
  /\ fleet' = Move(fleet, "close", "release")
  /\ UNCHANGED << batchVars, reader, push, jitter, updater, sender, publisher,
                  service >>

\* the deferred <-sem
FleetRelease ==
  /\ fleet.pc \in { "spawn", "wait" }
  /\ fleet.phase["release"] > 0
  /\ fleet' = [Move(fleet, "release", "done") EXCEPT !.sem = @ - 1]
  /\ UNCHANGED << batchVars, reader, push, jitter, updater, sender, publisher,
                  service >>

\* the deferred wg.Done(): the goroutine is over
FleetDone ==
  /\ fleet.pc \in { "spawn", "wait" }
  /\ fleet.phase["done"] > 0
  /\ fleet' = [fleet EXCEPT !.phase = [@ EXCEPT !["done"] = @ - 1],
                            !.wg = @ - 1, !.exited = @ + 1]
  /\ UNCHANGED << batchVars, reader, push, jitter, updater, sender, publisher,
                  service >>

\* wg.Wait() returns when the counter is zero; the summary follows
FleetWait ==
  /\ fleet.pc = "wait"
  /\ fleet.wg = 0
  /\ fleet' = [fleet EXCEPT !.pc = "summary"]
  /\ UNCHANGED << batchVars, reader, push, jitter, updater, sender, publisher,
                  service >>

FleetNext ==
  \/ FleetSpawn
  \/ FleetAcquire
  \/ \E ok \in BOOLEAN : FleetConnect(ok)
  \/ \E r \in { "ok", "error", "panic" } : FleetInstall(r)
  \/ FleetClose
  \/ FleetRelease
  \/ FleetDone
  \/ FleetWait

FleetSpec == FleetInit /\ [][FleetNext]_vars

(* ----- the claims ----- *)

FailedOutcomes == { "ConnectFailed", "InstallFailed" }
FailedHosts == { h \in Hosts : outcome[h] \in FailedOutcomes }
SucceededHosts == { h \in Hosts : outcome[h] = "Succeeded" }

\* C1: once the summary is printed every host has exactly one outcome: a
\* host whose goroutine ended failed is in the failed list exactly once, any
\* other host not at all, and total = number of hosts, failed = number of
\* failed hosts, succeeded + failed = total.
C1_OneOutcomePerHost ==
  summary.printed =>
    /\ \A h \in Hosts : outcome[h] \in FailedOutcomes \cup { "Succeeded" }
    /\ \A h \in Hosts :
         Count(summary.failedHosts, h) = IF h \in FailedHosts THEN 1 ELSE 0
    /\ Len(summary.failedHosts) = Cardinality(FailedHosts)
    /\ summary.total = NumHosts
    /\ summary.failed = Cardinality(FailedHosts)
    /\ summary.succeeded = Cardinality(SucceededHosts)
    /\ summary.succeeded + summary.failed = summary.total

\* the summary of a batch in which one host succeeded, one failed to connect
\* and one failed to install
C1_Witness ==
  /\ summary.printed
  /\ \E a, b, c \in Hosts :
       /\ outcome[a] = "Succeeded"
       /\ outcome[b] = "ConnectFailed"
       /\ outcome[c] = "InstallFailed"

\* C2: the connections that are open (a goroutine inside connectSSH, or a
\* client connected and not yet closed) never number more than the
\* semaphore's size, in every interleaving.
OpenConnections ==
  fleet.phase["dial"] + fleet.phase["open"] + fleet.phase["close"]

C2_ConnectionsBounded ==
  fleet.pc \in { "spawn", "wait", "summary" } =>
     /\ OpenConnections <= SemSize
     /\ OpenConnections <= fleet.sem
     /\ fleet.sem <= SemSize

\* the semaphore is full, every holder has its connection open or is
\* dialing, and a further goroutine is blocked on the send
C2_Witness ==
  /\ fleet.pc = "wait"
  /\ OpenConnections = SemSize
  /\ fleet.sem = SemSize
  /\ fleet.phase["acquire"] >= 1

\* C3: a host whose connect, detection and strategy all succeeded is never in
\* the failed list, whatever the other hosts did, its goroutine is not cut
\* off by another host's failure, and it is counted as succeeded by the
\* summary.
C3_FailureIsolated ==
  \A h \in SucceededHosts :
    /\ h \notin Range(failedInstalls)
    /\ \A g \in Hosts : h \notin Range(tmp[g])
    /\ pc[h] \in { "return", "exited" }
    /\ summary.printed =>
         /\ h \notin Range(summary.failedHosts)
         /\ summary.succeeded = NumHosts - Cardinality(FailedHosts)
         /\ summary.succeeded >= 1

\* C4: when main is past wg.Wait() every goroutine has returned with all its
\* deferred calls run, nobody holds the mutex or a semaphore slot, and the
\* failed list still is what the summary read.
C4_SummaryAfterAllWorkers ==
  mainpc \in { "summary", "done" } =>
    /\ \A h \in Hosts : pc[h] = "exited" /\ defers[h] = << >>
    /\ wg = 0
    /\ ~mu
    /\ summary.printed => summary.failedHosts = failedInstalls

\* main has printed a summary that lists failed hosts
C4_Witness ==
  /\ mainpc = "done"
  /\ Len(summary.failedHosts) >= 2

\* C5: under fair scheduling the batch eventually prints its summary.
C5_SummaryEventually == <>(summary.printed)

\* C6: a host whose processing met an error is recorded as failed when its
\* goroutine ends, and no error met while processing a host ends the process.
C6_ErrorsStayInTheWorker ==
  /\ ~crashed
  /\ \A h \in FailedHosts :
       pc[h] \in { "return", "exited" } => h \in Range(failedInstalls)

\* C7: the append section is entered only with the mutex held, never by two
\* goroutines at once, the slice a goroutine extends is the current one, and
\* every goroutine past the section has its host in the list exactly once.
InAppend == { h \in Hosts : pc[h] = "append" }

C7_AppendUnderMutex ==
  /\ Cardinality(InAppend) <= 1
  /\ \A h \in InAppend : mu /\ tmp[h] = failedInstalls
  /\ \A h \in FailedHosts :
       pc[h] \in { "return", "exited" } => Count(failedInstalls, h) = 1
  /\ Len(failedInstalls) =
       Cardinality({ h \in FailedHosts : pc[h] \in { "return", "exited" } })

\* one goroutine is inside the append section, with an earlier entry in the
\* list, while another waits for the mutex
C7_Witness ==
  \E a, b \in Hosts :
    /\ pc[a] = "append"
    /\ pc[b] = "lock"
    /\ Len(failedInstalls) >= 1

\* C8: a host for which connect failed with every credential is recorded as
\* failed and meets no detection and no strategy step: no session, transfer
\* or command is issued for it, and it never has a client.
C8_NoWorkWithoutConnection ==
  \A h \in Hosts :
    /\ outcome[h] = "ConnectFailed" =>
         /\ ~touched[h]
         /\ client[h] = "nil"
         /\ pc[h] \in { "lock", "append", "return", "exited", "dead" }
         /\ pc[h] \in { "return", "exited" } => h \in Range(failedInstalls)
    /\ touched[h] => client[h] # "nil"

\* a host has ended after connect failed with every credential
C8_Witness ==
  \E h \in Hosts :
    /\ outcome[h] = "ConnectFailed"
    /\ pc[h] = "exited"
    /\ h \in Range(failedInstalls)

\* C9: the credentials are dialed in list order starting with the first, the
\* loop moves to the next one only after a failed connect, nothing is dialed
\* once a connect has succeeded, and the credential that connected is the one
\* kept for the detection and the strategy.
DialEvent(h) ==
  /\ pc[h] = "dial"
  /\ << pc[h], user[h], attempt[h], client[h] >>' # << pc[h], user[h], attempt[h], client[h] >>

C9_FirstCredentialWins ==
  [][ \A h \in Hosts :
        /\ (pc[h] = "acquire" /\ pc'[h] = "dial") => user'[h] = 1
        /\ DialEvent(h) => client[h] = "nil" /\ successfulUser[h] = 0
        /\ (client[h] = "nil" /\ client'[h] = "open") =>
             /\ successfulUser'[h] = user[h]
             /\ pc'[h] = "detect"
        /\ (pc[h] = "dial" /\ pc'[h] = "dial" /\ user'[h] # user[h]) =>
             /\ user'[h] = user[h] + 1
             /\ client'[h] = "nil"
        /\ (pc'[h] \in { "detect", "install" } /\ successfulUser[h] # 0) =>
             successfulUser'[h] = successfulUser[h]
    ]_vars

\* one host connected with the first credential, so the second was never
\* dialed, and another connected with the second after the first had failed
C9_Witness ==
  \E a, b \in Hosts :
    /\ successfulUser[a] = 1
    /\ successfulUser[b] = 2
    /\ Len(usernames) >= 2

\* C10: connect makes no further attempt with a credential after an
\* authentication-level rejection of it.
C10_NoRetryAfterAuthRejection ==
  [][ \A h \in Hosts : DialEvent(h) => dialErr[h] # "auth" ]_vars

\* C11: connectSSH dials at most three times for one host and credential: a
\* dial happens only with fewer than three failed attempts behind it, a
\* failed attempt below the limit counts up and stays with the credential, a
\* successful attempt hands its client on at once with nothing dialed after
\* it, and the credential is given up only on the third failed attempt in a
\* row (every failed attempt, the third included, is the branch that logs,
\* sleeps the fixed 2s and counts).
C11_AtMostThreeDials ==
  [][ \A h \in Hosts :
        /\ attempt'[h] \in 0..2
        /\ DialEvent(h) => attempt[h] <= 2
        /\ (pc[h] = "dial" /\ attempt'[h] # attempt[h] /\ attempt'[h] # 0) =>
             /\ attempt'[h] = attempt[h] + 1
             /\ user'[h] = user[h]
             /\ client'[h] = "nil"
             /\ pc'[h] = "dial"
        /\ (client[h] = "nil" /\ client'[h] = "open") =>
             /\ pc[h] = "dial" /\ pc'[h] = "detect"
             /\ attempt'[h] = 0
        /\ (pc[h] = "dial" /\ user'[h] # user[h] /\ client'[h] = "nil" /\ ~crashed') =>
             attempt[h] = 2
    ]_vars

\* one host is about to make its third attempt after two failed ones, and
\* another has been given up after three failed attempts with each credential
C11_Witness ==
  \E a, b \in Hosts :
    /\ pc[a] = "dial" /\ attempt[a] = 2 /\ dialErr[a] # "nil"
    /\ outcome[b] = "ConnectFailed"

\* C12: a connection that is open belongs to a goroutine that has not
\* returned and has client.Close() among its deferred calls, ahead of the
\* semaphore release and wg.Done(); once the goroutine has returned, after a
\* successful strategy as after a failed one, its connection is closed.
C12_ConnectionClosedOnExit ==
  \A h \in Hosts :
    /\ client[h] = "open" =>
         /\ pc[h] \in { "detect", "install", "installed", "lock", "append", "return" }
         /\ Len(defers[h]) = 3
         /\ Last(defers[h]) = "client.Close"
    /\ pc[h] = "exited" => client[h] # "open"
    /\ (pc[h] = "exited" /\ touched[h]) => client[h] = "closed"

\* one host has returned after its strategy failed, another after its
\* strategy succeeded, both with the connection closed
C12_Witness ==
  \E a, b \in Hosts :
    /\ pc[a] = "exited" /\ outcome[a] = "InstallFailed" /\ client[a] = "closed"
    /\ pc[b] = "exited" /\ outcome[b] = "Succeeded" /\ client[b] = "closed"

(* ----- the claims about one host's workflow, statement by statement ----- *)

StepsOf(h) == Steps(isBuildroot[h], lldpdArg[h])
InCall(h) == at[h] >= 1
LocalOnly == { "stat", "zipRead" }
IsRemoteStep(step) == step \notin LocalOnly
\* the remote statements among the first n statements
IssuedBy(steps, n) == SelectSeq(SubSeq(steps, 1, n), IsRemoteStep)
\* the call of host h has returned an error from the statement at[h]
FailedAt(h) == pc[h] = "installed" /\ err[h] # "nil"

\* the stage a statement belongs to: 1 transferring (directories, files, and
\* in the package profile the side bundle), 2 configuring / installing,
\* 3 starting, 4 verifying; 0 for the local checks
Stage(step) ==
  CASE step \in { "mkdir", "xferFile", "zipXfer", "zipInstall", "debXfer" } -> 1
    [] step \in { "xferInit", "chmod", "updaterc", "dpkg" } -> 2
    [] step = "start" -> 3
    [] step = "verify" -> 4
    [] OTHER -> 0

C13_State ==
  \A h \in Hosts :
    /\ pc[h] \in { "idle", "acquire", "dial" } =>
         ~touched[h] /\ ~osRelease[h].read /\ ~InCall(h)
    /\ (touched[h] /\ ~crashed) => client[h] # "nil"
    /\ pc[h] = "detect" => client[h] = "open" /\ ~InCall(h) /\ ~touched[h]
    /\ InCall(h) =>
         /\ client[h] = "open" /\ touched[h] /\ successfulUser[h] # 0
         /\ pc[h] \in { "install", "installed" }
         /\ at[h] <= Len(StepsOf(h))
         /\ \A i \in 1..Len(issued[h]) - 1 :
              Stage(issued[h][i]) <= Stage(issued[h][i + 1])
    /\ (InCall(h) /\ pc[h] = "install") => issued[h] = IssuedBy(StepsOf(h), at[h] - 1)

C13_Step ==
  \A h \in Hosts :
    /\ (at'[h] # at[h] /\ ~crashed') =>
         \/ at[h] = 0 /\ at'[h] = 1 /\ pc[h] = "install"
         \/ at[h] >= 1 /\ at'[h] = at[h] + 1 /\ pc[h] = "install" /\ pc'[h] = "install"
         \/ at'[h] = 0 /\ pc[h] = "installed"
    /\ (issued'[h] # issued[h] /\ issued'[h] # << >>) =>
         /\ pc[h] = "install" /\ InCall(h)
         /\ issued'[h] = Append(issued[h], StepsOf(h)[at[h]])

\* C13: within one host the order is connect, detect, then the strategy's
\* statements one by one in program order, each one only after all earlier
\* ones returned nil, and the statements that reached the remote side go
\* through the stages transfer, configure/install, start, verify in that
\* order, in both strategies; hosts are not ordered among each other.
C13_StepsInOrder == [][ C13_State' /\ C13_Step ]_vars

\* two hosts are inside their strategies at once, one in each profile, both
\* past the transfers
C13_Witness ==
  \E a, b \in Hosts :
    /\ pc[a] = "install" /\ isBuildroot[a] /\ at[a] = 10
    /\ pc[b] = "install" /\ ~isBuildroot[b] /\ lldpdArg[b] /\ at[b] = 6

\* the errors a statement of a strategy can return
ErrorsOf(step) ==
  CASE step \in LocalOnly -> { "precondition" }
    [] step = "xferFile" -> { "precondition", "transfer" }
    [] step \in { "xferInit", "zipXfer", "debXfer" } -> { "transfer" }
    [] step = "verify" -> { "session", "verify" }
    [] step = "updaterc" -> { "command" }
    [] OTHER -> { "session", "command" }

C14_State ==
  \A h \in Hosts :
    /\ pc[h] = "install" => err[h] = "nil"
    /\ FailedAt(h) =>
         /\ err[h] \in ErrorsOf(StepsOf(h)[at[h]])
         /\ \/ issued[h] = IssuedBy(StepsOf(h), at[h] - 1)
            \/ issued[h] = IssuedBy(StepsOf(h), at[h])
    /\ (pc[h] = "installed" /\ err[h] = "nil") =>
         /\ at[h] = Len(StepsOf(h))
         /\ issued[h] = IssuedBy(StepsOf(h), at[h])
    /\ outcome[h] \in { "none", "ConnectFailed", "InstallFailed", "Succeeded" }

C14_Step ==
  \A h \in Hosts :
    /\ (FailedAt(h) /\ pc'[h] # pc[h] /\ ~crashed') =>
         /\ outcome'[h] = "InstallFailed"
         /\ pc'[h] = "lock"
         /\ issued'[h] = << >> /\ at'[h] = 0
    /\ (outcome'[h] # outcome[h] /\ outcome'[h] = "InstallFailed") => FailedAt(h)
    /\ (outcome'[h] # outcome[h] /\ outcome'[h] = "Succeeded") =>
         pc[h] = "installed" /\ err[h] = "nil"
    /\ outcome[h] # "none" => outcome'[h] = outcome[h]
    /\ pc[h] \in { "installed", "lock", "append", "return", "exited" } =>
         /\ pc'[h] \notin { "idle", "acquire", "dial", "detect", "install" }
         /\ issued'[h] = << >> \/ issued'[h] = issued[h]

\* C14: a strategy returns at the first statement that fails, with an error
\* of that statement: nothing after the failing statement reaches the remote
\* side, the host's outcome then is Failed (the only outcomes are failed
\* and succeeded, and succeeded needs every statement to have returned nil),
\* and the goroutine never goes back to connecting, detecting or installing.
C14_FirstErrorEndsTheHost == [][ C14_State' /\ C14_Step ]_vars

\* one strategy has returned the error of a transfer after earlier
\* statements were issued, another the error of its start command
C14_Witness ==
  \E a, b \in Hosts :
    /\ FailedAt(a) /\ StepsOf(a)[at[a]] = "xferFile" /\ at[a] = 6 /\ err[a] = "transfer"
    /\ FailedAt(b) /\ StepsOf(b)[at[b]] = "start" /\ err[b] = "command"

C15_State ==
  /\ \A h \in Hosts :
       (pc[h] = "installed" /\ err[h] = "verify") =>
         /\ StepsOf(h)[at[h]] = "verify"
         /\ at[h] = Len(StepsOf(h))
         /\ issued[h] = IssuedBy(StepsOf(h), at[h])
         /\ Count(issued[h], "verify") = 1
  /\ summary.printed =>
       \A h \in Hosts :
         Count(summary.failedHosts, h) = IF outcome[h] \in FailedOutcomes THEN 1 ELSE 0

C15_Step ==
  \A h \in Hosts :
    (pc[h] = "installed" /\ err[h] = "verify" /\ pc'[h] # pc[h] /\ ~crashed') =>
      /\ outcome'[h] = "InstallFailed"
      /\ pc'[h] = "lock"
      /\ at'[h] = 0 /\ issued'[h] = << >>
      /\ \A g \in Hosts \ { h } : outcome'[g] = outcome[g] /\ pc'[g] = pc[g]

\* C15: when the verification command fails after every earlier statement
\* returned nil, the strategy returns that error, the verification has been
\* issued once and is not issued again, the host's outcome is Failed while
\* the other hosts are untouched, and the failed list of the summary holds
\* each failed host once and no other host.
C15_VerifyFailureFailsTheHost == [][ C15_State' /\ C15_Step ]_vars

\* a package-profile strategy has returned the verification error while
\* another host has succeeded
C15_Witness ==
  /\ \E h \in Hosts :
       pc[h] = "installed" /\ err[h] = "verify" /\ ~isBuildroot[h]
  /\ \E g \in Hosts : outcome[g] = "Succeeded"

\* C16: an embedded-profile host whose local files are present and whose
\* transfers and remote commands all succeed ends with a nil error, that is
\* as a succeeded host.
C16_EmbeddedAllSuccess ==
  \A h \in Hosts :
    (pc[h] = "installed" /\ isBuildroot[h] /\ ~faulted[h]) => err[h] = "nil"

C17_State ==
  \A h \in Hosts :
    /\ osRelease[h].read =>
         /\ isBuildroot[h] <=>
              (osRelease[h].sess /\ osRelease[h].run /\ osRelease[h].contains)
         /\ pc[h] = "install" /\ at[h] = 0
         /\ err[h] = "nil"
    /\ \A g \in Hosts :
         (osRelease[h].read /\ osRelease[g] = osRelease[h]) =>
           isBuildroot[g] = isBuildroot[h]

C17_Step ==
  \A h \in Hosts :
    /\ (osRelease'[h].read /\ ~osRelease[h].read) =>
         pc[h] = "detect" /\ pc'[h] = "install"
    /\ (pc[h] = "detect" /\ pc'[h] # pc[h] /\ ~crashed') =>
         osRelease'[h].read /\ pc'[h] = "install"
    /\ (pc'[h] = "detect" /\ pc[h] # "detect") => pc[h] = "dial"
    /\ (osRelease[h].read /\ pc'[h] # "dead") =>
         \/ osRelease'[h] = osRelease[h] /\ isBuildroot'[h] = isBuildroot[h]
         \/ ~osRelease'[h].read /\ at'[h] = 1 /\ isBuildroot'[h] = isBuildroot[h]

\* C17: checkBuildroot answers true exactly when the session was created,
\* cat /etc/os-release succeeded and its output contains "Buildroot", and
\* false in every other case; it leaves no error behind, the command is
\* issued once per host, the strategy is then entered with that answer, and
\* equal command results give equal answers.
C17_DetectIsTotal == [][ C17_State' /\ C17_Step ]_vars

\* one host was detected embedded, another package-managed although the
\* output of its failed command contained the substring
C17_Witness ==
  \E a, b \in Hosts :
    /\ osRelease[a] = [read |-> TRUE, sess |-> TRUE, run |-> TRUE, contains |-> TRUE]
    /\ isBuildroot[a]
    /\ osRelease[b] = [read |-> TRUE, sess |-> TRUE, run |-> FALSE, contains |-> TRUE]
    /\ ~isBuildroot[b]

\* C18: in installBuildroot the existence check of the three local files
\* comes before everything else: when it fails the call returns with nothing
\* issued to the remote side, and whatever the call issues is issued after
\* the check passed.
C18_MissingFileBeforeRemote ==
  \A h \in Hosts :
    (InCall(h) /\ isBuildroot[h]) =>
      /\ (FailedAt(h) /\ StepsOf(h)[at[h]] = "stat") =>
           err[h] = "precondition" /\ issued[h] = << >>
      /\ issued[h] # << >> =>
           \E i \in 1..at[h] - 1 :
             /\ StepsOf(h)[i] = "stat"
             /\ \A j \in 1..i : ~IsRemoteStep(StepsOf(h)[j])
      /\ at[h] = 1 => issued[h] = << >>

\* installBuildroot has returned the missing-file error
C18_Witness ==
  \E h \in Hosts :
    /\ FailedAt(h) /\ isBuildroot[h]
    /\ StepsOf(h)[at[h]] = "stat" /\ faulted[h]

\* C19: a host that fails on a missing local artifact (a file of the
\* embedded profile, the side-bundle archive) has had no network I/O: no
\* connection was attempted and no remote command was issued for it.
C19_NoNetworkBeforeMissingArtifact ==
  \A h \in Hosts :
    (FailedAt(h) /\ StepsOf(h)[at[h]] \in LocalOnly) =>
      client[h] = "nil" /\ ~touched[h] /\ issued[h] = << >>

\* the position of a statement in the issued list, 0 when it is absent
IssuedPos(h, step) ==
  IF \E i \in 1..Len(issued[h]) : issued[h][i] = step
    THEN CHOOSE i \in 1..Len(issued[h]) : issued[h][i] = step
    ELSE 0

SideBundle == { "zipRead", "zipXfer", "zipInstall" }
MainPackage == { "debXfer", "dpkg" }

\* C20: in installDeb with installLldpd the archive is transferred and its
\* install command issued before the main package is transferred; a call
\* that failed in the side-bundle block issued nothing of the main package;
\* without installLldpd nothing of the side bundle is issued.
C20_SideBundleFirst ==
  \A h \in Hosts :
    (InCall(h) /\ ~isBuildroot[h]) =>
      /\ ~lldpdArg[h] => Range(issued[h]) \cap SideBundle = { }
      /\ (lldpdArg[h] /\ IssuedPos(h, "debXfer") # 0) =>
           /\ IssuedPos(h, "zipXfer") # 0
           /\ IssuedPos(h, "zipXfer") < IssuedPos(h, "zipInstall")
           /\ IssuedPos(h, "zipInstall") < IssuedPos(h, "debXfer")
      /\ (FailedAt(h) /\ StepsOf(h)[at[h]] \in SideBundle) =>
           Range(issued[h]) \cap (MainPackage \cup { "start", "verify" }) = { }
      /\ IssuedPos(h, "dpkg") # 0 =>
           IssuedPos(h, "debXfer") # 0 /\ IssuedPos(h, "debXfer") < IssuedPos(h, "dpkg")

\* one call failed at the side bundle's install command, another got to the
\* main package after the side bundle
C20_Witness ==
  \E a, b \in Hosts :
    /\ FailedAt(a) /\ lldpdArg[a] /\ StepsOf(a)[at[a]] = "zipInstall"
    /\ lldpdArg[b] /\ IssuedPos(b, "dpkg") # 0

\* C21: in installBuildroot a file is pushed only after the mkdir -p of
\* every destination's directory was issued and returned nil (three of
\* them, one per destination), and a call that failed at a mkdir has pushed
\* no file.
C21_MkdirBeforePush ==
  \A h \in Hosts :
    (InCall(h) /\ isBuildroot[h]) =>
      /\ IssuedPos(h, "xferFile") # 0 =>
           /\ Count(issued[h], "mkdir") = 3
           /\ \A i \in 1..Len(issued[h]) :
                issued[h][i] = "mkdir" => i < IssuedPos(h, "xferFile")
      /\ (FailedAt(h) /\ StepsOf(h)[at[h]] = "mkdir") =>
           /\ Range(issued[h]) \subseteq { "mkdir" }
           /\ err[h] \in { "session", "command" }

\* one call failed at its second mkdir, another is pushing its files
C21_Witness ==
  \E a, b \in Hosts :
    /\ FailedAt(a) /\ isBuildroot[a] /\ at[a] = 3 /\ issued[a] = << "mkdir", "mkdir" >>
    /\ isBuildroot[b] /\ pc[b] = "install" /\ Count(issued[b], "xferFile") = 2

\* the os.ReadFile calls the strategy call of host h has made so far
WorkerLoads(h) ==
  Cardinality({ i \in 1..Len(StepsOf(h)) :
                  /\ StepsOf(h)[i] \in { "xferFile", "zipRead" }
                  /\ i < at[h] \/ (i = at[h] /\ pc[h] = "installed") })

\* C26: the local artifacts are loaded before the workers start and no
\* worker loads an artifact from disk for its host.
C26_LoadedOncePerBatch ==
  \A h \in Hosts : InCall(h) => WorkerLoads(h) = 0

\* C30: in installDeb every command that pipes a secret to sudo -S (side
\* bundle install, dpkg, start, status) pipes the secret of the credential
\* that authenticated for the host, and no other; installBuildroot pipes
\* none.
C30_SecretOfAuthenticatedUser ==
  \A h \in Hosts :
    InCall(h) =>
      IF isBuildroot[h]
        THEN sudoWith[h] = { }
        ELSE /\ successfulUser[h] \in 1..Len(usernames)
             /\ sudoWith[h] \subseteq { credentials[usernames[successfulUser[h]]] }
             /\ (\E i \in 1..(at[h] - 1) : StepsOf(h)[i] \in Privileged) =>
                  sudoWith[h] # { }

\* with device type 2 chosen, a host that username2 authenticated has run
\* dpkg and start with password2
C30_Witness ==
  \E h \in Hosts :
    /\ pc[h] = "install" /\ ~isBuildroot[h]
    /\ usernames = << 2 >>
    /\ successfulUser[h] = 1
    /\ at[h] >= 1
    /\ StepsOf(h)[at[h]] = "verify"
    /\ sudoWith[h] = { << "password", 2 >> }

\* the lines of a file: the pieces between newlines, and the piece after the
\* last newline when it is not empty
RECURSIVE InputLines(_)
InputLines(f) ==
  IF f = << >> THEN << >>
  ELSE IF \A i \in 1..Len(f) : f[i] # "\n" THEN << f >>
  ELSE LET i == CHOOSE k \in 1..Len(f) :
                  f[k] = "\n" /\ \A j \in 1..(k - 1) : f[j] # "\n"
       IN  << SubSeq(f, 1, i - 1) >> \o InputLines(SubSeq(f, i + 1, Len(f)))

NonBlank(l) == \E i \in 1..Len(l) : l[i] \notin White

\* C25: when readIPsFromFile returns without error, ips has one entry for
\* each line of the file that has a character other than white space, in
\* the order of the lines, and the entry is that line without the white
\* space around it; blank lines give no entry.
C25_OneTargetPerNonBlankLine ==
  (reader.pc = "done" /\ reader.err = "nil") =>
    LET kept == SelectSeq(InputLines(reader.file), NonBlank)
    IN  /\ Len(reader.ips) = Len(kept)
        /\ \A k \in 1..Len(kept) :
             /\ reader.ips[k] # << >>
             /\ reader.ips[k] = TrimSpace(kept[k])

\* three addresses with a blank line among them give three targets
C25_Witness ==
  /\ reader.pc = "done" /\ reader.err = "nil"
  /\ reader.file = << "1", "\n", "\n", "2", "\n", "1" >>
  /\ reader.ips = << << "1" >>, << "2" >>, << "1" >> >>

\* the number a string of decimal digits denotes
RECURSIVE Atoi(_)
Atoi(ds) == IF ds = << >> THEN 0 ELSE 10 * Atoi(Front(ds)) + Last(ds)

\* C27: the delay written into a generated init script is an integer d with
\* 0 <= d < 600, and every generated script has had its own draw.
C27_DelayInRange ==
  /\ jitter.pc = "seed" => jitter.drawn = jitter.installs
  /\ (jitter.pc = "seed" /\ jitter.installs > 0) =>
       /\ jitter.script.sleep # << >>
       /\ Atoi(jitter.script.sleep) = jitter.randomDelay
       /\ Atoi(jitter.script.sleep) >= 0
       /\ Atoi(jitter.script.sleep) < 600

\* the second installation drew again, after one rejected value, and its
\* script sleeps 599 seconds
C27_Witness ==
  /\ jitter.pc = "seed" /\ jitter.installs = 2 /\ jitter.drawn = 2
  /\ jitter.used = 2
  /\ jitter.script.sleep = << 5, 9, 9 >>

Pushing == push.pc \notin { "off", "dead" }

\* C22: a transferFile call whose goroutine had a failed write does not
\* return nil, and a call returns nil only when the remote command exited
\* with status zero.
C22_WriteErrorIsReturned ==
  Pushing =>
    \A k \in Pushes :
      /\ push.writer[k].broken => push.result[k] \in { "none", "session", "scp" }
      /\ push.result[k] = "nil" => (push.ans[k].start /\ push.ans[k].exit = 0)

\* hd is a single-file header of mode 0644 for the payload data and the
\* last element of path
IsHeaderFor(hd, data, path) ==
  /\ Len(hd) = 6
  /\ hd[1] = "C0644" /\ hd[2] = " " /\ hd[4] = " " /\ hd[6] = "\n"
  /\ Atoi(hd[3]) = Len(data)
  /\ LET name == hd[5]
     IN  /\ Len(name) > 0 /\ Len(name) < Len(path)
         /\ \A i \in 1..Len(name) : name[i] # "/"
         /\ path[Len(path) - Len(name)] = "/"
         /\ SubSeq(path, Len(path) - Len(name) + 1, Len(path)) = name

IsPrefix(a, b) == Len(a) <= Len(b) /\ SubSeq(b, 1, Len(a)) = a

\* C23: what a session's command has received on its input is always the
\* beginning of: one header (mode 0644, length of the payload, base name of
\* the remote path), the payload, one null byte; it is all of it when the
\* goroutine has ended without a failed write; and the command of that
\* session is the receive command for the remote path.
C23_HeaderPayloadTerminator ==
  Pushing =>
    /\ \A i \in Pushes :
         LET in == push.session[i].stdin
         IN  /\ in # << >> =>
                  /\ Len(in) >= 6
                  /\ IsHeaderFor(SubSeq(in, 1, 6), push.data, push.remotePath)
                  /\ IsPrefix(SubSeq(in, 7, Len(in)), Append(push.data, 0))
             /\ push.session[i].started =>
                  push.session[i].cmd =
                    [prog |-> "/usr/bin/scp", mode |-> "-t", path |-> push.remotePath]
    /\ \A k \in Pushes :
         (push.writer[k].pc = "done" /\ ~push.writer[k].broken) =>
            Len(push.session[push.cur[k]].stdin) = 6 + Len(push.data) + 1

\* the goroutine of the first call has written a two-byte payload ending in
\* a zero byte to the running receive command of config's path
C23_Witness ==
  /\ Pushing
  /\ push.data = << 7, 0 >>
  /\ push.remotePath = << "/", "o", "/", "s", "/", "c" >>
  /\ push.writer[1].pc = "done" /\ ~push.writer[1].broken
  /\ push.session[1].started /\ push.session[1].state = "open"
  /\ push.session[1].stdin =
       << "C0644", " ", << 2 >>, " ", << "c" >>, "\n", 7, 0, 0 >>

\* the result of a transferFile call as a function of what the call met
Outcome(a) ==
  IF ~a.sess THEN "session"
  ELSE IF ~a.start \/ a.exit # 0 THEN "scp"
  ELSE "nil"

\* C24: of two transferFile calls in a row with the same bytes and path,
\* each has a session of its own, each one's result is the same function of
\* what that call met (so equal answers give equal results, and the second
\* result does not depend on the first call), and two goroutines that wrote
\* everything sent the same stream.
C24_SecondPushLikeTheFirst ==
  (Pushing /\ push.pc = "done") =>
    /\ (push.cur[1] # 0 /\ push.cur[2] # 0) => push.cur[1] # push.cur[2]
    /\ \A k \in Pushes : push.result[k] = Outcome(push.ans[k])
    /\ push.ans[1] = push.ans[2] => push.result[1] = push.result[2]
    /\ (\A k \in Pushes :
          push.writer[k].pc = "done" /\ ~push.writer[k].broken) =>
         push.session[push.cur[1]].stdin = push.session[push.cur[2]].stdin

\* both calls returned nil, on two sessions that received the same stream
C24_Witness ==
  /\ Pushing /\ push.pc = "done"
  /\ push.result = [k \in Pushes |-> "nil"]
  /\ push.cur[1] # push.cur[2]
  /\ \A k \in Pushes : push.writer[k].pc = "done" /\ ~push.writer[k].broken
  /\ push.session[1].stdin = push.session[2].stdin
  /\ Len(push.session[2].stdin) > 7

Updating == updater.pc # "off"

\* C28: every installed update had a downloaded file whose computed
\* checksum is the metadata's checksum, the installer is reached only with
\* such a file, and a check that ended on invalid metadata, a failed
\* download or a checksum mismatch installed nothing and did not exit.
C28_InstallOnlyAfterChecksum ==
  Updating =>
    /\ \A i \in 1..Len(updater.installs) :
         /\ updater.installs[i].sum = updater.installs[i].expected
         /\ updater.installs[i].expected # << >>
    /\ updater.pc = "install" =>
         md5hex(updater.file) = updater.metadata.checksum
    /\ \A k \in 1..Len(updater.log) :
         updater.log[k] \in { "metadata", "download", "checksum" } =>
           \A i \in 1..Len(updater.installs) : updater.installs[i].check # k
    /\ updater.exits <= Count(updater.log, "installed")
    /\ updater.pc = "exit" => Last(updater.log) = "installed"

\* on a Debian device a first check ended on a checksum mismatch and the
\* process went on to a second check, which installed the update
C28_Witness ==
  /\ Updating /\ ~updater.buildroot
  /\ updater.pc = "exit"
  /\ updater.log = << "checksum", "installed" >>
  /\ Len(updater.installs) = 1 /\ updater.installs[1].check = 2
  /\ updater.exits = 0

\* the numbers of a version string, e.g. 1.10 is << 1, 10 >>
RECURSIVE Numbers(_, _)
Numbers(v, acc) ==
  IF v = << >> THEN << acc >>
  ELSE IF Head(v) = "." THEN << acc >> \o Numbers(Tail(v), 0)
  ELSE Numbers(Tail(v), 10 * acc + (Code[Head(v)] - Code["0"]))

RECURSIVE NumLess(_, _)
NumLess(a, b) ==
  IF b = << >> THEN FALSE
  ELSE IF a = << >> THEN TRUE
  ELSE IF Head(a) # Head(b) THEN Head(a) < Head(b)
  ELSE NumLess(Tail(a), Tail(b))

Newer(v, w) == NumLess(Numbers(w, 0), Numbers(v, 0))

\* C29: every update that was installed had a metadata version newer than
\* the version installed at the time, on Debian and on Buildroot.
C29_InstallOnlyNewer ==
  Updating =>
    \A i \in 1..Len(updater.installs) :
      Newer(updater.installs[i].to, updater.installs[i].from)

\* C31: in every interleaving the goroutine of transferFile has taken the
\* session's stdin pipe before session.Run starts the command: the process
\* never dies of a goroutine that got no pipe, and no session has its
\* command started while its goroutine has still to take the pipe.
C31_PipeBeforeStart ==
  /\ push.pc # "dead"
  /\ Pushing =>
       \A k \in Pushes :
         (push.cur[k] # 0 /\ push.session[push.cur[k]].started) =>
            push.writer[k].pc # "pipe"

\* the statements that call Session.Run (the transfers run theirs inside
\* transferFile, on the session transferFile creates)
RunsCommand == { "mkdir", "chmod", "updaterc", "start", "verify", "zipInstall", "dpkg" }

\* C32: a strategy never comes to a Session.Run on a session that has
\* already run a command: every statement that calls Session.Run either
\* creates its session first or finds a session no command was started on.
C32_OneCommandPerSession ==
  \A h \in Hosts :
    (pc[h] = "install" /\ at[h] >= 1 /\ StepsOf(h)[at[h]] \in RunsCommand) =>
       (StepsOf(h)[at[h]] \in OwnSession \/ ~started[h])

\* C33: a goroutine that is at the detection, in the strategy or has the
\* close deferred holds an open connection, at the detection the one of the
\* credential that connected; a goroutine that has left the credential
\* loop without a connection has logged the connect failure, has issued
\* nothing to the host and, once it returns, has recorded the host.
C33_ConnectedOrFailed ==
  \A h \in Hosts :
    /\ pc[h] \in { "detect", "install", "installed" } => client[h] = "open"
    /\ pc[h] = "detect" => successfulUser[h] \in 1..Len(usernames)
    /\ (\E i \in 1..Len(defers[h]) : defers[h][i] = "client.Close") =>
         client[h] = "open"
    /\ (pc[h] \in { "lock", "append", "return", "exited" } /\ client[h] = "nil") =>
         /\ outcome[h] = "ConnectFailed"
         /\ ~touched[h]
         /\ pc[h] \in { "return", "exited" } => h \in Range(failedInstalls)

\* of a list of two credentials the second connected for one host, which
\* is at the detection, while another host, for which both failed, is
\* recording the failure
C33_Witness ==
  /\ Len(usernames) = 2
  /\ \E a, b \in Hosts :
       /\ pc[a] = "detect" /\ client[a] = "open" /\ successfulUser[a] = 2
       /\ pc[b] = "append" /\ client[b] = "nil"
       /\ outcome[b] = "ConnectFailed"

Sending == sender.pc # "off"

\* C34: a sendStatusUpdate call whose publish failed on an attempt before
\* the third goes on to another attempt: a call that has ended after a
\* failed publish has made all three attempts.
C34_RetryAfterFailedPublish ==
  (Sending /\ sender.pc = "idle" /\ sender.ended = "pubfail") =>
     sender.attempt = maxStatusRetries

\* C35: once the buffer is filled, a message is handed to the publisher
\* only when some field of the payload differs from its buffered value.
C35_NoChangeNoMessage ==
  (Sending /\ sender.pc = "publish" /\ DOMAIN sender.messageBuffer # { }) =>
     \E k \in Keys : Get(sender.messageBuffer, k) # sender.message[k]

\* C36: the message handed to the publisher while the buffer is empty has
\* every key of the payload; with a filled buffer it has status, deviceID
\* and exactly the other keys whose value differs from the buffered one;
\* every key carries the payload's current value.
C36_FirstFullThenChanges ==
  (Sending /\ sender.pc \in { "marshal", "publish", "update" }) =>
     /\ DOMAIN sender.messageBuffer = { } => DOMAIN sender.changedFields = Keys
     /\ DOMAIN sender.messageBuffer # { } =>
          \A k \in Keys :
            k \in DOMAIN sender.changedFields <=>
              \/ k \in { "status", "deviceID" }
              \/ sender.messageBuffer[k] # sender.message[k]
     /\ \A k \in DOMAIN sender.changedFields :
          sender.changedFields[k] = sender.message[k]

\* a later message carries status, deviceID and the one key that changed
C36_Witness ==
  /\ Sending /\ sender.pc = "publish"
  /\ DOMAIN sender.messageBuffer = Keys
  /\ DOMAIN sender.changedFields = { "status", "deviceID", "temp" }
  /\ sender.messageBuffer["date"] = sender.message["date"]

\* C37, in every state: outside the window between the successful publish
\* and the buffer update, the buffer holds for each key the value last
\* published successfully.
C37_State ==
  (Sending /\ sender.pc # "update") => sender.messageBuffer = sender.acked

\* C37, for every step: the buffer changes only in the step after a
\* successful publish, and only at the keys that were published.
C37_Step ==
  (Sending /\ sender'.messageBuffer # sender.messageBuffer) =>
     /\ sender.pc = "update"
     /\ \A k \in DOMAIN sender'.messageBuffer :
          Get(sender.messageBuffer, k) # sender'.messageBuffer[k] =>
            k \in DOMAIN sender.changedFields

\* C37: the buffer is modified only after a successful publish, only at
\* the published keys, and holds the last successfully published values.
C37_BufferIsLastPublished == [][C37_State' /\ C37_Step]_vars

\* after an earlier successful publish, a publish of a changed temperature
\* failed and the buffer still holds the value published before
C37_Witness ==
  /\ Sending /\ sender.pc = "after" /\ sender.ended = "pubfail"
  /\ DOMAIN sender.messageBuffer = Keys
  /\ "temp" \in DOMAIN sender.changedFields
  /\ sender.messageBuffer["temp"] # sender.message["temp"]
  /\ sender.messageBuffer = sender.acked

Publishing == publisher.pc \notin { "off", "idle" }

\* C38: PublishMQTTMessage makes at most three attempts; it has returned
\* nil exactly when its last attempt's publish completed without error
\* before the timeout, and an error exactly when the third attempt failed;
\* while it runs no attempt has succeeded and fewer than three have failed
\* for good; at the start of an attempt and at the return every client
\* created so far has been disconnected.
C38_PublishAttempts ==
  Publishing =>
    /\ publisher.attempt \in 1..maxPublishRetries
    /\ Len(publisher.log) <= maxPublishRetries
    /\ \A i \in 1..Len(publisher.log) :
         publisher.log[i] = "ok" => i = Len(publisher.log)
    /\ publisher.returned = "nil" <=>
         /\ publisher.pc = "returned"
         /\ publisher.log # << >>
         /\ publisher.log[Len(publisher.log)] = "ok"
    /\ publisher.returned = "error" <=>
         /\ publisher.pc = "returned"
         /\ Len(publisher.log) = maxPublishRetries
         /\ publisher.log[maxPublishRetries] # "ok"
    /\ publisher.pc = "returned" => publisher.returned # "none"
    /\ publisher.pc \in { "options", "returned" } =>
         \A i \in 1..Len(publisher.client) :
           publisher.client[i] = "disconnected"

\* a call that returned nil at its third attempt, after a connection
\* timeout and a publish error, with its three clients disconnected
C38_Witness ==
  /\ Publishing /\ publisher.pc = "returned" /\ publisher.returned = "nil"
  /\ publisher.log = << "connTimeout", "pubErr", "ok" >>
  /\ publisher.client = << "disconnected", "disconnected", "disconnected" >>

\* C39: the process has exited on a termination signal only with the
\* context cancelled and with the network monitor, the status-update loop
\* and the update-check loop all returned.
C39_ExitAfterGoroutines ==
  service.main = "exited" =>
     /\ service.ctx = "cancelled"
     /\ service.monitor = "returned"
     /\ service.loop = "returned"
     /\ service.checker = "returned"

\* the workers past the semaphore send whose deferred receive has not run
Admitted == { h \in Hosts : pc[h] \notin { "idle", "acquire", "exited", "dead" } }
HoldsSlot(h) == \E i \in 1..Len(defers[h]) : defers[h][i] = "sem"
NotDone(h) == \E i \in 1..Len(defers[h]) : defers[h][i] = "wg.Done"

\* C40: the slots held number the admitted workers that have not released
\* theirs; a worker holds its slot from admission to its return, releases
\* it once, with its connection no longer open and its wg.Done() still to
\* come, and an exited worker holds none; when main is past wg.Wait() no
\* slot is held.
C40_SlotsMatchWorkers ==
  /\ sem = Cardinality({ h \in Admitted : HoldsSlot(h) })
  /\ \A h \in Hosts :
       /\ (h \in Admitted /\ pc[h] # "return") => HoldsSlot(h)
       /\ h \notin Admitted => ~HoldsSlot(h)
       /\ Cardinality({ i \in 1..Len(defers[h]) : defers[h][i] = "sem" }) <= 1
       /\ HoldsSlot(h) => NotDone(h)
       /\ (pc[h] = "return" /\ ~HoldsSlot(h)) => client[h] # "open"
       /\ (pc[h] = "return" /\ defers[h] # << >> /\ Last(defers[h]) = "sem") =>
            client[h] # "open"
  /\ mainpc \in { "summary", "done" } => sem = 0

\* a worker that connected has closed its connection and released its slot
\* and has still to call wg.Done(), while another worker holds a slot
C40_Witness ==
  \E h, g \in Hosts :
    /\ pc[h] = "return" /\ defers[h] = << "wg.Done" >>
    /\ client[h] = "closed"
    /\ g # h /\ HoldsSlot(g)
    /\ sem = 1
    /\ wg >= 2

====
